---- MODULE Spec2Model ----
(***************************************************************************)
(* ModuleTreeManager (ellar/di/injector/tree_manager.py): the tree of      *)
(* modules kept by the dependency-injection bootstrap, its mutating        *)
(* operations and its lookups.                                             *)
(*                                                                         *)
(* The WeakKeyDictionary `modules` keeps insertion order, which find_module *)
(* and search_module_tree depend on; it is modelled as a sequence of       *)
(* [key, data] entries.  Each stored value keeps a strong reference to its *)
(* module, so no key is collected while its entry exists.                  *)
(***************************************************************************)
EXTENDS Integers, Sequences, FiniteSets, TLC

\* ------------------------------------------------------------------ bounds
\* number of manager calls made in one behaviour of Spec
MaxOps == 2
\* number of add_module_dependency calls made before a get_module_dependencies
MaxDependencyCalls == 1

\* ------------------------------------------------------------ input domains
\* module types (dictionary keys)
Ids == {"R", "A", "B", "C"}
\* module types used by the calls of Spec
CallIds == {"R", "A", "B"}
\* the module of the app_core_module handed to the constructor
CoreId == "R"
\* Python's None, for an optional module type
None == "None"
Parents == CallIds \cup {None}

\* a ModuleRefBase / ModuleSetup: the attributes the manager reads
NoValue == [module |-> None, is_ready |-> FALSE]
ModuleValue(m, ready) == [module |-> m, is_ready |-> ready]
\* the values handed to the calls of Spec
Values == {ModuleValue("R", TRUE), ModuleValue("A", FALSE), ModuleValue("A", TRUE),
           ModuleValue("B", TRUE)}
CoreValues == {v \in Values : v.module = CoreId}
\* the value the bootstrap registers for module m
SetupOf(m) == ModuleValue(m, TRUE)

Providers == {"P"}

\* --------------------------------------------------------------- TreeData
TreeData(value, parent, dependencies) ==
    [value |-> value, parent |-> parent, dependencies |-> dependencies]

\* what get_module returns for a missing key
NoData == TreeData(NoValue, None, <<>>)

\* ---------------------------------------------------- the modules mapping
Keys(mods) == {mods[i].key : i \in 1..Len(mods)}

Has(mods, k) == k \in Keys(mods)

IndexOf(mods, k) == CHOOSE i \in 1..Len(mods) : mods[i].key = k

get_module(mods, module_type) ==
    IF Has(mods, module_type) THEN mods[IndexOf(mods, module_type)].data ELSE NoData

\* self.modules[k] = data : a present key keeps its position
SetItem(mods, k, data) ==
    IF Has(mods, k)
    THEN [mods EXCEPT ![IndexOf(mods, k)].data = data]
    ELSE Append(mods, [key |-> k, data |-> data])

\* self.modules[k].dependencies.append(dep)
AppendDependency(mods, k, dep) ==
    [mods EXCEPT ![IndexOf(mods, k)].data.dependencies = Append(@, dep)]

\* ------------------------------------------------------------ operations
ValueErrors == {"DuplicateModuleError", "MissingParentError", "UnknownModuleError"}

Outcome(mods, root, outcome) == [modules |-> mods, root |-> root, outcome |-> outcome]

\* add_module that adopts the registered key, not the value's module, as root
AttachModule_rootIsKey(mods, root, core, module_type, value, parent_module) ==
    LET data == TreeData(value, parent_module, <<>>)
        stored == SetItem(mods, module_type, data)
    IN  IF parent_module # None
        THEN IF ~Has(stored, parent_module)
             THEN Outcome(stored, root, "MissingParentError")
             ELSE Outcome(AppendDependency(stored, parent_module, module_type),
                          IF parent_module = core /\ root = None
                          THEN module_type ELSE root,
                          "ok")
        ELSE IF parent_module = None /\ root = None /\ core = None
        THEN Outcome(stored, module_type, "ok")
        ELSE Outcome(stored, root, "ok")

\* add_module that makes every module added without a parent the root
AttachModule_reassignsRoot(mods, root, core, module_type, value, parent_module) ==
    LET data == TreeData(value, parent_module, <<>>)
        stored == SetItem(mods, module_type, data)
    IN  IF parent_module # None
        THEN IF ~Has(stored, parent_module)
             THEN Outcome(stored, root, "MissingParentError")
             ELSE Outcome(AppendDependency(stored, parent_module, module_type),
                          IF parent_module = core /\ root = None
                          THEN data.value.module ELSE root,
                          "ok")
        ELSE IF parent_module = None /\ core = None
        THEN Outcome(stored, module_type, "ok")
        ELSE Outcome(stored, root, "ok")

\* add_module after its duplicate check: store the entry, then attach it
AttachModule(mods, root, core, module_type, value, parent_module) ==
    LET data == TreeData(value, parent_module, <<>>)
        stored == SetItem(mods, module_type, data)
    IN  IF parent_module # None
        THEN IF ~Has(stored, parent_module)
             THEN Outcome(stored, root, "MissingParentError")
             ELSE Outcome(AppendDependency(stored, parent_module, module_type),
                          IF parent_module = core /\ root = None
                          THEN data.value.module ELSE root,
                          "ok")
        ELSE IF parent_module = None /\ root = None /\ core = None
        THEN Outcome(stored, module_type, "ok")
        ELSE IF root # None /\ parent_module # None /\ core # None
                /\ parent_module = core
        THEN Outcome(stored, root, "MultipleRootsError")
        ELSE Outcome(stored, root, "ok")

\* add_module without its "already exists" check
AddModule_overwrite(mods, root, core, module_type, value, parent_module) ==
    AttachModule(mods, root, core, module_type, value, parent_module)

AddModule(mods, root, core, module_type, value, parent_module) ==
    IF Has(mods, module_type)
    THEN Outcome(mods, root, "DuplicateModuleError")
    ELSE AttachModule(mods, root, core, module_type, value, parent_module)

\* update_module that starts the entry over with an empty dependency list
UpdateModule_dropsDependencies(mods, root, module_type, value, parent_module) ==
    IF ~Has(mods, module_type)
    THEN Outcome(mods, root, "UnknownModuleError")
    ELSE LET data == get_module(mods, module_type)
         IN  Outcome(SetItem(mods, module_type,
                             TreeData(value,
                                      IF parent_module # None THEN parent_module
                                      ELSE data.parent,
                                      <<>>)),
                     root, "ok")

UpdateModule(mods, root, module_type, value, parent_module) ==
    IF ~Has(mods, module_type)
    THEN Outcome(mods, root, "UnknownModuleError")
    ELSE LET data == get_module(mods, module_type)
             new_module_data ==
                 TreeData(value,
                          IF parent_module # None THEN parent_module ELSE data.parent,
                          data.dependencies)
         IN  Outcome(SetItem(mods, module_type, new_module_data), root, "ok")

AddOrUpdate(mods, root, core, module_type, value, parent_module) ==
    LET added == AddModule(mods, root, core, module_type, value, parent_module)
    IN  IF added.outcome \in ValueErrors
        THEN UpdateModule(added.modules, added.root, module_type, value, parent_module)
        ELSE added

\* add_module_dependency that makes an entry for a parent it does not find
AddModuleDependency_createsParent(mods, root, parent_module, dependency) ==
    IF ~Has(mods, parent_module)
    THEN Outcome(SetItem(mods, parent_module, TreeData(NoValue, None, <<dependency>>)),
                 root, "UnknownModuleError")
    ELSE Outcome(AppendDependency(mods, parent_module, dependency), root, "ok")

AddModuleDependency(mods, root, parent_module, dependency) ==
    IF ~Has(mods, parent_module)
    THEN Outcome(mods, root, "UnknownModuleError")
    ELSE Outcome(AppendDependency(mods, parent_module, dependency), root, "ok")

\* add_provider that forwards without testing data.is_ready
AddProvider_ignoresReady(mods, module_type, provider_type, export) ==
    LET data == get_module(mods, module_type)
    IN  IF ~Has(mods, module_type)
        THEN [calls |-> <<>>, outcome |-> "UnknownModuleError"]
        ELSE [calls |-> <<[value |-> data.value, provider |-> provider_type,
                           export |-> export]>>,
              outcome |-> "ok"]

\* the calls add_provider makes to value.add_provider, and its outcome
AddProvider(mods, module_type, provider_type, export) ==
    LET data == get_module(mods, module_type)
    IN  IF ~Has(mods, module_type)
        THEN [calls |-> <<>>, outcome |-> "UnknownModuleError"]
        ELSE IF data.value.is_ready
        THEN [calls |-> <<[value |-> data.value, provider |-> provider_type,
                           export |-> export]>>,
              outcome |-> "ok"]
        ELSE [calls |-> <<>>, outcome |-> "ok"]

RootModule(root) ==
    IF root # None
    THEN [result |-> root, outcome |-> "ok"]
    ELSE [result |-> None, outcome |-> "AssertionError"]

\* ---------------------------------------------------------------- lookups
\* A predicate over TreeData is modelled by the set of modules whose value it
\* accepts: predicate(data) == data.value.module \in predicate
MatchSets == {{}, {"R"}, {"C"}, {"A", "B"}, Ids}
\* the filter_item predicates that pick the start nodes of a search
FilterSets == {{}, {"R"}, {"A", "B"}}
\* what find_predicate does when it is handed None instead of a TreeData
OnNone == {"true", "false", "raise"}

Matches(predicate, data) == data.value.module \in predicate

RECURSIVE MatchingFrom(_, _, _)
MatchingFrom(mods, predicate, i) ==
    IF i > Len(mods) THEN <<>>
    ELSE (IF Matches(predicate, mods[i].data) THEN <<mods[i].key>> ELSE <<>>)
         \o MatchingFrom(mods, predicate, i + 1)

\* find_module that never sets found_any
FindModule_alwaysMarker(mods, predicate) ==
    MatchingFrom(mods, predicate, 1) \o <<None>>

\* the keys of the nodes find_module yields, in order; None for the marker
FindModule(mods, predicate) ==
    LET found == MatchingFrom(mods, predicate, 1)
    IN  IF found = <<>> THEN <<None>> ELSE found

\* result: key of the node returned (None for None); trace: the nodes handed
\* to find_predicate, in order
Visit(result, trace, outcome) == [result |-> result, trace |-> trace, outcome |-> outcome]

\* dfs never returns from a node that is already on its own call stack: the
\* nested call repeats the outer one until the interpreter's recursion limit
RECURSIVE dfs(_, _, _, _), dfs_children(_, _, _, _, _)
dfs(mods, find_predicate, current_node, stack) ==
    IF current_node \in stack
    THEN Visit(None, <<>>, "RecursionError")
    ELSE IF Matches(find_predicate, get_module(mods, current_node))
    THEN Visit(current_node, <<current_node>>, "ok")
    ELSE LET sub == dfs_children(mods, find_predicate,
                                 get_module(mods, current_node).dependencies, 1,
                                 stack \cup {current_node})
         IN  Visit(sub.result, <<current_node>> \o sub.trace, sub.outcome)

\* the loop over current_node.dependencies taken from the last one added
dfs_children_reversed(mods, find_predicate, dependencies, i, stack) ==
    IF i > Len(dependencies)
    THEN Visit(None, <<>>, "ok")
    ELSE LET child_id == dependencies[Len(dependencies) + 1 - i]
         IN  IF ~Has(mods, child_id)
             THEN dfs_children(mods, find_predicate, dependencies, i + 1, stack)
             ELSE LET res == dfs(mods, find_predicate, child_id, stack)
                  IN  IF res.outcome # "ok" \/ res.result # None
                      THEN res
                      ELSE LET rest == dfs_children(mods, find_predicate, dependencies,
                                                    i + 1, stack)
                           IN  Visit(rest.result, res.trace \o rest.trace, rest.outcome)

dfs_children(mods, find_predicate, dependencies, i, stack) ==
    IF i > Len(dependencies)
    THEN Visit(None, <<>>, "ok")
    ELSE IF ~Has(mods, dependencies[i])
    THEN dfs_children(mods, find_predicate, dependencies, i + 1, stack)
    ELSE LET res == dfs(mods, find_predicate, dependencies[i], stack)
         IN  IF res.outcome # "ok" \/ res.result # None
             THEN res
             ELSE LET rest == dfs_children(mods, find_predicate, dependencies, i + 1, stack)
                  IN  Visit(rest.result, res.trace \o rest.trace, rest.outcome)

\* dfs(None): find_predicate(None), then None.dependencies
dfs_none(on_none) ==
    IF on_none = "true"
    THEN Visit(None, <<None>>, "ok")
    ELSE Visit(None, <<None>>, "AttributeError")

RECURSIVE search_from(_, _, _, _, _)
search_from(mods, starts, i, find_predicate, on_none) ==
    IF i > Len(starts)
    THEN Visit(None, <<>>, "ok")
    ELSE LET res == IF starts[i] = None
                    THEN dfs_none(on_none)
                    ELSE dfs(mods, find_predicate, starts[i], {})
         IN  IF res.outcome # "ok" \/ res.result # None
             THEN res
             ELSE LET rest == search_from(mods, starts, i + 1, find_predicate, on_none)
                  IN  Visit(rest.result, res.trace \o rest.trace, rest.outcome)

SearchModuleTree(mods, filter_item, find_predicate, on_none) ==
    search_from(mods, FindModule(mods, filter_item), 1, find_predicate, on_none)

\* the children kept by get_module_dependencies, from position i of the list
RECURSIVE ChildrenFrom(_, _, _, _, _)
ChildrenFrom(mods, dependencies, i, has_predicate, predicate) ==
    IF i > Len(dependencies) THEN <<>>
    ELSE (IF /\ Has(mods, dependencies[i])
             /\ has_predicate => Matches(predicate, get_module(mods, dependencies[i]))
          THEN <<dependencies[i]>> ELSE <<>>)
         \o ChildrenFrom(mods, dependencies, i + 1, has_predicate, predicate)

\* get_module_dependencies that lists the children of the children as well
GetModuleDependencies_transitive(mods, parent_id, has_predicate, predicate) ==
    IF ~Has(mods, parent_id)
    THEN <<>>
    ELSE LET own == ChildrenFrom(mods, get_module(mods, parent_id).dependencies, 1,
                                 has_predicate, predicate)
             below[i \in 0..Len(own)] ==
                 IF i = 0 THEN <<>>
                 ELSE below[i - 1]
                      \o ChildrenFrom(mods, get_module(mods, own[i]).dependencies, 1,
                                      has_predicate, predicate)
         IN  own \o below[Len(own)]

\* the keys of the TreeData get_module_dependencies returns; has_predicate is
\* FALSE for predicate=None
GetModuleDependencies(mods, parent_id, has_predicate, predicate) ==
    IF ~Has(mods, parent_id)
    THEN <<>>
    ELSE ChildrenFrom(mods, get_module(mods, parent_id).dependencies, 1,
                      has_predicate, predicate)

\* ================================================= provider configuration
\* architek/di/service_config.py: ProviderConfig, injectable, get_scope
SingletonScope == "Singleton"
request_scope == "Request"
transient_scope == "Transient"
Scopes == {SingletonScope, request_scope, transient_scope}

\* the classes of the application, and how each was declared:
\*   plain      no decorator
\*   bare       @injectable
\*   call       @injectable(scope=...)  (scope None for @injectable())
\*   marker     a scope decorator of its own, which sets __scope__
Classes == {"Logger", "ConsoleLogger", "Reflector", "Service", "HostContextFactory",
            "ExecutionContextFactory", "Legacy", "P", "Q", "X", "Y", "Z"}

Declaration(cls) ==
    CASE cls = "Reflector" -> [form |-> "bare", scope |-> None]
      [] cls = "Service" -> [form |-> "call", scope |-> None]
      [] cls \in {"HostContextFactory", "ExecutionContextFactory"}
           -> [form |-> "call", scope |-> request_scope]
      [] cls = "Legacy" -> [form |-> "marker", scope |-> transient_scope]
      [] OTHER -> [form |-> "plain", scope |-> None]

\* _Injectable.__init__: the scope the decorator will attach
InjectableInit(scope) == IF scope # None THEN scope ELSE SingletonScope

\* injectable(...) that drops the scope it was given
Injectable_ignoresScope(form, scope) ==
    IF form \in {"bare", "call"} THEN InjectableInit(None) ELSE None

\* injectable(scope)(cls) or injectable(cls): the value of the injectable
\* attribute on the class afterwards, None when the class was not decorated
Injectable(form, scope) ==
    IF form = "call"
    THEN InjectableInit(IF scope # None THEN scope ELSE SingletonScope)
    ELSE IF form = "bare"
    THEN InjectableInit(None)
    ELSE None

\* the two attributes get_scope reads from a class
ClassAttributes(cls) ==
    LET d == Declaration(cls)
    IN  [injectable |-> Injectable(d.form, d.scope),
         scope_attr |-> IF d.form = "marker" THEN d.scope ELSE None]

\* get_scope that reads __scope__ only
get_scope_markerOnly(cls) == ClassAttributes(cls).scope_attr

get_scope(cls) ==
    IF ClassAttributes(cls).injectable # None
    THEN ClassAttributes(cls).injectable
    ELSE ClassAttributes(cls).scope_attr

\* use_value arguments: None, values that are false in a condition, and an
\* instance
FalsyValues == {"0", "''", "False"}
UseValues == {None, "an_instance"} \cup FalsyValues
IsTrue(x) == x # None /\ x \notin FalsyValues

NoConfig == [base_type |-> None, use_value |-> None, use_class |-> None]

\* ProviderConfig.__init__: the object built, or the error raised
ProviderConfigInit(base_type, use_value, use_class) ==
    IF IsTrue(use_value) /\ IsTrue(use_class)
    THEN [outcome |-> "ImproperConfiguration", config |-> NoConfig]
    ELSE [outcome |-> "ok",
          config |-> [base_type |-> base_type, use_value |-> use_value,
                      use_class |-> use_class]]

\* a call made on the container; concrete_type None when it is not passed
ContainerCall(method, base_type, concrete_type, scope) ==
    [method |-> method, base_type |-> base_type, concrete_type |-> concrete_type,
     scope |-> scope]

ScopeOrSingleton_defaultsToRequest(cls) ==
    IF get_scope(cls) # None THEN get_scope(cls) ELSE request_scope

ScopeOrSingleton(cls) == IF get_scope(cls) # None THEN get_scope(cls) ELSE SingletonScope

\* ProviderConfig.register: the calls made on the container
Register(config) ==
    LET scope == ScopeOrSingleton(config.base_type)
    IN  IF IsTrue(config.use_class)
        THEN <<ContainerCall("register", config.base_type, config.use_class,
                             ScopeOrSingleton(config.use_class))>>
        ELSE IF IsTrue(config.use_value)
        THEN <<ContainerCall("add_singleton", config.base_type, config.use_value,
                             SingletonScope)>>
        ELSE <<ContainerCall("register", config.base_type, None, scope)>>

\* ================================================================ container
\* an object: the class (or supplied value) it is an instance of, and a serial
\* number that tells two instances of one class apart
Instance(of, id) == [of |-> of, id |-> id]
NoInstance == Instance(None, 0)

\* a binding record of the container
Binding(concrete_type, scope, instance) ==
    [concrete_type |-> concrete_type, scope |-> scope, instance |-> instance]
NoBinding == Binding(None, None, NoInstance)

\* a mapping extended or overwritten at one key
Put(f, key, value) ==
    [k \in DOMAIN f \cup {key} |-> IF k = key THEN value ELSE f[k]]

\* the container holds a binding record for the types registered, and no other
EmptyContainer == [t \in {} |-> NoBinding]

BindingOf(container, t) == IF t \in DOMAIN container THEN container[t] ELSE NoBinding

\* Container.register / Container.add_singleton
ContainerApply(container, call) ==
    IF call.method = "add_singleton"
    THEN Put(container, call.base_type,
             Binding(call.base_type, SingletonScope, Instance(call.concrete_type, 0)))
    ELSE Put(container, call.base_type,
             Binding(IF call.concrete_type # None THEN call.concrete_type
                     ELSE call.base_type,
                     call.scope, NoInstance))

RECURSIVE ContainerApplyAll(_, _, _)
ContainerApplyAll(container, calls, i) ==
    IF i > Len(calls) THEN container
    ELSE ContainerApplyAll(ContainerApply(container, calls[i]), calls, i + 1)

\* ============================================================ context factories
Conns == {"c1", "c2"}
\* a concurrency unit: the handler of a connection, or background work
\* detached from every connection
Units == Conns \cup {"background"}
ScopeTypes == {"http", "websocket"}

Connection(state, type) == [state |-> state, type |-> type]
Unopened == Connection("unopened", None)

\* HTTPConnectionContextFactory.validate
HTTPConnectionValidate(context_type) == "ok"

WebSocketValidate_lenient(context_type) == "ok"

\* WebSocketContextFactory.validate
WebSocketValidate(context_type) ==
    IF context_type # "websocket" THEN "HostContextException" ELSE "ok"

ContextFactories == {"HTTPConnectionContextFactory", "WebSocketContextFactory"}

Validate(factory, context_type) ==
    IF factory = "WebSocketContextFactory"
    THEN WebSocketValidate(context_type)
    ELSE HTTPConnectionValidate(context_type)

Operations == {[endpoint |-> "index"], [endpoint |-> "items"]}
Channels == {[receive |-> "empty_receive", send |-> "empty_send"],
             [receive |-> "receive", send |-> "send"]}

ExecutionContext(id, scope_type, receive, send, operation_handler) ==
    [id |-> id, scope |-> scope_type, receive |-> receive, send |-> send,
     operation_handler |-> operation_handler, reflector |-> "self.reflector"]
NoContext == ExecutionContext(0, None, None, None, None)

CreateContext_withoutSlotCheck(scoped_request_args, id, operation, scope_type, receive, send) ==
    [outcome |-> "ok",
     context |-> ExecutionContext(id, scope_type, receive, send, operation.endpoint)]

\* ExecutionContextFactory.create_context; scoped_request_args is what
\* SCOPED_CONTEXT_VAR.get() returns in the calling unit
CreateContext(scoped_request_args, id, operation, scope_type, receive, send) ==
    IF ~IsTrue(scoped_request_args)
    THEN [outcome |-> "ServiceUnavailable", context |-> NoContext]
    ELSE [outcome |-> "ok",
          context |-> ExecutionContext(id, scope_type, receive, send, operation.endpoint)]

\* ==================================================================== resolution
\* the types the constructor of a class asks for
ScenarioParameters(cls) ==
    CASE cls = "P" -> <<"Q">>
      [] cls = "Q" -> <<"P">>
      [] cls = "X" -> <<"Y">>
      [] cls = "Y" -> <<"Z">>
      [] cls = "Z" -> <<"X">>
      [] OTHER -> <<>>

ConstructorParameters(cls) ==
    IF cls = "ExecutionContextFactory" THEN <<"Reflector">> ELSE ScenarioParameters(cls)

\* the interpreter's call-depth limit, counted in nested resolutions
RecursionLimit == 6

\* the private cache of a boundary holds the instances made in it
EmptyCache == [t \in {} |-> NoInstance]

CachedIn(cache, t) == IF t \in DOMAIN cache THEN cache[t] ELSE NoInstance

Frame(base_type, concrete_type, phase, i) ==
    [base_type |-> base_type, concrete_type |-> concrete_type, phase |-> phase, i |-> i]

Request(n, base_type, boundary, outcome, instance) ==
    [n |-> n, base_type |-> base_type, boundary |-> boundary, outcome |-> outcome,
     instance |-> instance]
NoRequest == Request(0, None, None, "none", NoInstance)

Resolved(base_type, boundary, instance) ==
    [base_type |-> base_type, boundary |-> boundary, instance |-> instance]

\* the container and everything one resolution reads and writes
Resolution(b, caches, nid, st, req, res, made) ==
    [bindings |-> b, boundary_cache |-> caches, next_id |-> nid, stack |-> st,
     request |-> req, resolved |-> res, constructed |-> made]

\* the resolution ends with an error: nothing under construction is kept
Fail(r, error) ==
    [r EXCEPT !.stack = <<>>, !.request.outcome = error]

\* the top frame yields an instance to its caller
Return(r, instance) ==
    LET top == r.stack[Len(r.stack)]
        seen == r.resolved \cup {Resolved(top.base_type, r.request.boundary, instance)}
    IN  IF Len(r.stack) = 1
        THEN [r EXCEPT !.stack = <<>>, !.resolved = seen,
                       !.request.outcome = "ok", !.request.instance = instance]
        ELSE [r EXCEPT !.stack = [k \in 1..(Len(r.stack) - 1) |->
                                      IF k = Len(r.stack) - 1
                                      THEN [r.stack[k] EXCEPT !.i = @ + 1]
                                      ELSE r.stack[k]],
                       !.resolved = seen]

UnderConstruction_never(st) == {}

\* the classes whose construction has begun and not ended
UnderConstruction(st) ==
    {st[k].concrete_type : k \in {j \in 1..Len(st) : st[j].phase = "construct"}}

\* create_object begins for the binding of the top frame
BeginConstruction(r, binding) ==
    IF binding.concrete_type \in UnderConstruction(r.stack)
    THEN Fail(r, "CircularDependencyError")
    ELSE [r EXCEPT !.stack[Len(r.stack)] =
              Frame(@.base_type, binding.concrete_type, "construct", 1)]

Lookup_unboundWithoutBoundary(r) ==
    LET top == r.stack[Len(r.stack)]
        binding == BindingOf(r.bindings, top.base_type)
        boundary == r.request.boundary
    IN  IF binding = NoBinding \/ (binding.scope = request_scope /\ boundary = None)
        THEN Fail(r, "UnboundTypeError")
        ELSE IF binding.scope = SingletonScope /\ binding.instance # NoInstance
        THEN Return(r, binding.instance)
        ELSE IF binding.scope = request_scope
                /\ CachedIn(r.boundary_cache[boundary], top.base_type) # NoInstance
        THEN Return(r, CachedIn(r.boundary_cache[boundary], top.base_type))
        ELSE BeginConstruction(r, binding)

\* resolve: the binding record of the top frame's type is looked up
Lookup(r) ==
    LET top == r.stack[Len(r.stack)]
        binding == BindingOf(r.bindings, top.base_type)
        boundary == r.request.boundary
    IN  CASE binding = NoBinding ->
                Fail(r, IF Len(r.stack) = 1 THEN "UnboundTypeError"
                        ELSE "UnresolvableDependencyError")
          [] binding # NoBinding /\ binding.scope = SingletonScope ->
                IF binding.instance # NoInstance
                THEN Return(r, binding.instance)
                ELSE BeginConstruction(r, binding)
          [] binding # NoBinding /\ binding.scope = request_scope ->
                IF boundary = None
                THEN Fail(r, "ScopeUnavailableError")
                ELSE IF CachedIn(r.boundary_cache[boundary], top.base_type) # NoInstance
                     THEN Return(r, CachedIn(r.boundary_cache[boundary], top.base_type))
                     ELSE BeginConstruction(r, binding)
          [] OTHER -> BeginConstruction(r, binding)

\* where a newly constructed instance is kept
CacheInstance(r, base_type, instance) ==
    LET scope == r.bindings[base_type].scope
    IN  CASE scope = SingletonScope ->
                [r EXCEPT !.bindings[base_type].instance = instance]
          [] scope = request_scope ->
                [r EXCEPT !.boundary_cache[r.request.boundary] =
                              Put(@, base_type, instance)]
          [] OTHER -> r

\* create_object: the next constructor parameter is resolved, or the object
\* is made once every parameter has been
CreateObject(r) ==
    LET top == r.stack[Len(r.stack)]
        parameters == ConstructorParameters(top.concrete_type)
    IN  IF top.i <= Len(parameters)
        THEN IF Len(r.stack) >= RecursionLimit
             THEN Fail(r, "RecursionError")
             ELSE [r EXCEPT !.stack = Append(@, Frame(parameters[top.i], None, "lookup", 0))]
        ELSE LET instance == Instance(top.concrete_type, r.next_id)
                 made == [r EXCEPT !.next_id = @ + 1,
                                   !.constructed = @ \cup {Resolved(top.base_type,
                                                                    r.request.boundary,
                                                                    instance)}]
             IN  Return(CacheInstance(made, top.base_type, instance), instance)

ResolveStep(r) ==
    IF r.stack[Len(r.stack)].phase = "lookup" THEN Lookup(r) ELSE CreateObject(r)

\* a resolution runs to its end: it is a synchronous call
RECURSIVE ResolveAll(_)
ResolveAll(r) == IF r.stack = <<>> THEN r ELSE ResolveAll(ResolveStep(r))

\* the providers the application's modules declare
Provider(base_type, use_value, use_class) ==
    [base_type |-> base_type, use_value |-> use_value, use_class |-> use_class]

AppProviders ==
    << Provider("Logger", None, "ConsoleLogger"),
       Provider("Service", "an_instance", None),
       Provider("Reflector", None, None),
       Provider("HostContextFactory", None, None),
       Provider("ExecutionContextFactory", None, None),
       Provider("P", None, None), Provider("Q", None, None),
       Provider("X", None, None), Provider("Y", None, None),
       Provider("Z", None, None) >>

RECURSIVE RegisterAll(_, _, _)
RegisterAll(container, providers, i) ==
    IF i > Len(providers) THEN container
    ELSE LET p == providers[i]
             built == ProviderConfigInit(p.base_type, p.use_value, p.use_class)
         IN  RegisterAll(IF built.outcome = "ok"
                         THEN ContainerApplyAll(container, Register(built.config), 1)
                         ELSE container,
                         providers, i + 1)


\* ------------------------------------------------------------ HttpBasicAuth
\* (architek/core/guard/http.py)  A str is modelled as the sequence of its
\* pieces, a piece being a word or one of the separators " " and ":"; an
\* Optional[str] is a record telling None from a str.

NoneStr == [none |-> TRUE, str |-> <<>>]
Str(s) == [none |-> FALSE, str |-> s]
\* the truth value Python gives an Optional[str]
Truthy(x) == ~x.none /\ x.str # <<>>

\* connection.headers.get(self.header): the header is absent or it is a scheme
\* part, spaces and a credentials part, any of which may be empty.  The
\* credentials are base64 words: of "user:pass", "user", "user:pa:ss" and ":",
\* one with its padding cut off, and one of the bytes ff ef.
Headers ==
    {NoneStr} \cup
    { Str(scheme \o spaces \o credentials \o trailing) :
        scheme \in {<<>>, <<"Basic">>, <<"BASIC">>, <<"basic">>, <<"Bearer">>},
        spaces \in {<<>>, <<" ">>, <<" ", " ">>},
        credentials \in {<<>>, <<"dXNlcjpwYXNz">>, <<"dXNlcg==">>,
                         <<"dXNlcjpwYTpzcw==">>, <<"Og==">>, <<"dXNlcg">>, <<"/+8=">>},
        trailing \in {<<>>, <<" ">>} }

\* str.partition(sep): split at the first occurrence of sep
Partition(s, sep) ==
    IF \E i \in 1..Len(s) : s[i] = sep
    THEN LET i == CHOOSE k \in 1..Len(s) :
                      s[k] = sep /\ \A j \in 1..(k - 1) : s[j] # sep
         IN  <<SubSeq(s, 1, i - 1), <<sep>>, SubSeq(s, i + 1, Len(s))>>
    ELSE <<s, <<>>, <<>>>>

\* self.authorization_partitioning(authorization), inherited from BaseHttpAuth:
\* scheme, separator, credentials; three empty strings for no header
AuthorizationPartitioning(authorization) ==
    IF ~Truthy(authorization) THEN <<<<>>, <<>>, <<>>>>
    ELSE Partition(authorization.str, " ")

\* str.lower()
Lower(s) ==
    [i \in 1..Len(s) |->
        CASE s[i] \in {"Basic", "BASIC", "basic"} -> "basic"
          [] s[i] = "Bearer" -> "bearer"
          [] OTHER -> s[i]]

\* b64decode(credentials).decode("ascii"): characters outside the base64
\* alphabet, the space among them, are discarded before decoding
B64Decode(credentials) ==
    LET words == SelectSeq(credentials, LAMBDA p : p # " ")
        Decoded(error, text) == [error |-> error, text |-> text]
    IN  CASE words = <<>> -> Decoded(None, <<>>)
          [] words = <<"dXNlcjpwYXNz">> -> Decoded(None, <<"user", ":", "pass">>)
          [] words = <<"dXNlcg==">> -> Decoded(None, <<"user">>)
          [] words = <<"dXNlcjpwYTpzcw==">> ->
                Decoded(None, <<"user", ":", "pa", ":", "ss">>)
          [] words = <<"Og==">> -> Decoded(None, <<":">>)
          [] words = <<"/+8=">> -> Decoded("UnicodeDecodeError", <<>>)
          [] OTHER -> Decoded("binascii.Error", <<>>)

HTTP_401_UNAUTHORIZED == 401
HTTP_403_FORBIDDEN == 403

\* what _get_credentials raises or returns
Credentials(outcome, status_code, detail, www_authenticate, username, password) ==
    [outcome |-> outcome, status_code |-> status_code, detail |-> detail,
     www_authenticate |-> www_authenticate, username |-> username,
     password |-> password]

\* _not_unauthorized_exception(message)
NotUnauthorizedException(realm, message) ==
    LET unauthorized_headers ==
            IF realm # None THEN Str(<<"Basic", " ", "realm=\"", realm, "\"">>)
            ELSE Str(<<"Basic">>)
    IN  Credentials("raise", HTTP_401_UNAUTHORIZED, message, unauthorized_headers,
                    NoneStr, NoneStr)

\* HttpBasicAuth._get_credentials(connection).  The three names username,
\* separator, password are bound to the three items of the tuple written in
\* the code: the conditional expression, None and None.
GetCredentials(realm, authorization) ==
    LET parts == AuthorizationPartitioning(authorization)
        scheme == parts[1]
        credentials == parts[3]
        decoded == B64Decode(credentials)
        data == decoded.text
        username == IF data # <<>> THEN Partition(data, ":") ELSE None
        separator == NoneStr
        password == NoneStr
    IN  IF \/ ~(Truthy(authorization) /\ scheme # <<>> /\ credentials # <<>>)
           \/ Lower(scheme) # <<"basic">>
        THEN Credentials("raise", HTTP_403_FORBIDDEN, "Not authenticated", NoneStr,
                         NoneStr, NoneStr)
        ELSE IF decoded.error # None
        THEN NotUnauthorizedException(realm, "Invalid authentication credentials")
        ELSE IF ~Truthy(separator)
        THEN NotUnauthorizedException(realm, "Invalid authentication credentials")
        ELSE Credentials("return", None, None, NoneStr, username, password)

NoAuthCall ==
    [op |-> "none", realm |-> None, authorization |-> NoneStr,
     result |-> Credentials("none", None, None, NoneStr, NoneStr, NoneStr)]

\* -------------------------------------------------------- SessionMiddleware
\* (ellar/core/middleware/sessions.py)  A scope and a config are mappings from
\* their keys; a session is a dict, written as its Python literal.

MaxAppSteps == 3

Sessions == {"{}", "{'user': 1}"}

\* mapping[key] = value
setitem(mapping, key, value) ==
    [k \in DOMAIN mapping \cup {key} |-> IF k = key THEN value ELSE mapping[k]]

\* SessionMiddleware.__init__(app, session_service, config)
SessionMiddlewareInit(session_service, config) ==
    LET c == IF "SESSION_DISABLED" \in DOMAIN config THEN config
             ELSE setitem(config, "SESSION_DISABLED", "False")
    IN  [_session_service |-> session_service,
         _is_active |-> session_service # "SessionServiceNullStrategy",
         _is_disabled |-> c["SESSION_DISABLED"]]

\* self._session_service.serialize_session(session), given a session or the
\* str "null": the value of the cookie header
serialize_session(session) ==
    CASE session = "null" -> "session=null"
      [] session = "{'user': 1}" -> "session=user"
      [] OTHER -> "session="

Message(type, headers) == [type |-> type, headers |-> headers]
AppMessages ==
    {Message("http.response.start", h) :
        h \in {<<>>, <<<<"content-type", "text/plain">>>>,
               <<<<"Set-Cookie", "theme=dark">>>>}} \cup
    {Message("http.response.body", <<>>), Message("websocket.accept", <<>>)}

\* _send_wrapper(message): what it passes to send
SendWrapper_noCookie(scope, message) == message
SendWrapper(scope, message) ==
    IF message.type = "http.response.start"
    THEN IF scope["session"] # "{}"
         THEN Message(message.type,
                      Append(message.headers,
                             <<"Set-Cookie", serialize_session(scope["session"])>>))
         ELSE Message(message.type,
                      Append(message.headers,
                             <<"Set-Cookie", serialize_session("null")>>))
    ELSE message

\* what the inner app does, in order: it sends a message, or it writes its
\* request.session
AppScripts ==
    LET AppSteps ==
            {[do |-> "send", message |-> m, session |-> "{}"] : m \in AppMessages} \cup
            {[do |-> "write_session", message |-> Message(None, <<>>), session |-> s] :
                s \in Sessions}
    IN  UNION {[1..n -> AppSteps] : n \in 0..MaxAppSteps}

\* what a call of the middleware did: the scope and the send it gave the inner
\* app, the argument it gave deserialize_session, the scope at the end, the
\* messages the outer send received and how the inner app ended
SessionRun(app_scope, app_send, deserialized, scope, sent, outcome) ==
    [app_scope |-> app_scope, app_send |-> app_send, deserialized |-> deserialized,
     scope |-> scope, sent |-> sent, outcome |-> outcome]

\* self.app(scope, receive, send): the inner app runs its script; request.session
\* asserts that the scope has a "session" key.  run.app_send tells which send
\* the app was given.
RECURSIVE App(_, _)
App(script, run) ==
    IF script = <<>> THEN run
    ELSE LET step == Head(script)
         IN  IF step.do = "send"
             THEN App(Tail(script),
                      [run EXCEPT !.sent =
                          Append(@, IF run.app_send = "_send_wrapper"
                                    THEN SendWrapper(run.scope, step.message)
                                    ELSE step.message)])
             ELSE IF "session" \notin DOMAIN run.scope
             THEN [run EXCEPT !.outcome = "AssertionError"]
             ELSE App(Tail(script),
                      [run EXCEPT !.scope = setitem(@, "session", step.session)])

\* SessionMiddleware.__call__(scope, receive, send).  `loaded` is what the
\* service's deserialize_session returns.
SessionCall_alwaysActive(self, scope, cookie, loaded, script) ==
    LET with_session == setitem(scope, "session", loaded)
    IN  App(script, SessionRun(with_session, "_send_wrapper", cookie, with_session,
                               <<>>, "ok"))
SessionCall(self, scope, cookie, loaded, script) ==
    IF \/ scope["type"] \notin {"http", "websocket"}
       \/ ~self._is_active
       \/ IsTrue(self._is_disabled)
    THEN App(script, SessionRun(scope, "send", "not called", scope, <<>>, "ok"))
    ELSE LET with_session == setitem(scope, "session", loaded)
         IN  App(script, SessionRun(with_session, "_send_wrapper", cookie,
                                    with_session, <<>>, "ok"))

NoSessionCall ==
    [op |-> "none", session_service |-> None, config |-> [k \in {} |-> "False"],
     scope |-> [k \in {} |-> None], cookie |-> None, script |-> <<>>,
     result |-> SessionRun([k \in {} |-> None], "send", "not called",
                           [k \in {} |-> None], <<>>, "ok")]

\* ------------------------------------------------- ControllerRouteOperation
\* (architek/core/routing/controller/route.py)  The run of _handle for one
\* connection: where it is, how it left, the context its worker thread was
\* given, the boundaries its code has read from the slot and the request-scoped
\* instances it has been handed.
Handler(phase, exit, is_coroutine, thread_context, read, got) ==
    [phase |-> phase, exit |-> exit, is_coroutine |-> is_coroutine,
     thread_context |-> thread_context, read |-> read, got |-> got]
IdleHandler == Handler("idle", None, FALSE, None, {}, {})

\* _handle takes its next step.  `event` is what happens at the point where it
\* stands: it goes on, the parameters have errors, the code raises, or the task
\* is cancelled at the await; `context` is the context of the task, of which
\* run_in_threadpool hands a copy to the worker thread.  A task waiting for
\* its worker thread is cancelled only once the thread has returned.
Handle(h, context, event) ==
    LET leave(exit) == [h EXCEPT !.phase = "finished", !.exit = exit,
                                 !.thread_context = None]
    IN  CASE h.phase = "controller" /\ event = "proceed" ->
                [h EXCEPT !.phase = "resolve_dependencies"]
          [] h.phase = "controller" /\ event = "raise" -> leave("unhandled exception")
          [] h.phase = "resolve_dependencies" /\ event = "proceed" ->
                IF h.is_coroutine THEN [h EXCEPT !.phase = "endpoint"]
                ELSE [h EXCEPT !.phase = "run_in_threadpool", !.thread_context = context]
          [] h.phase = "resolve_dependencies" /\ event = "errors" ->
                leave("handled exception")
          [] h.phase \in {"endpoint", "run_in_threadpool"} /\ event = "proceed" ->
                [h EXCEPT !.phase = "response", !.thread_context = None]
          [] h.phase \in {"endpoint", "run_in_threadpool"} /\ event = "raise" ->
                leave("unhandled exception")
          [] h.phase = "response" /\ event = "proceed" -> leave("success")
          [] h.phase \in {"resolve_dependencies", "endpoint", "response"}
                /\ event = "cancel" -> leave("cancelled")
          [] OTHER -> h

\* SCOPED_CONTEXT_VAR.get() in code running for connection c: the slot of the
\* task that handles c, or the copy of it the worker thread was given
CurrentBoundary_sharedSlot(published, h, c) ==
    IF \E u \in DOMAIN published : u # c /\ published[u] # None
    THEN published[CHOOSE u \in DOMAIN published : u # c /\ published[u] # None]
    ELSE published[c]
CurrentBoundary(published, h, c) ==
    IF h.phase = "run_in_threadpool" THEN h.thread_context ELSE published[c]

\* teardown runs when the handler has left, however it left
TeardownDue_onSuccessOnly(h) == h.phase = "finished" /\ h.exit = "success"
TeardownDue(h) == h.phase = "finished"

\* ------------------------------------------------------------------ state
VARIABLES
    modules,         \* self.modules, in insertion order
    core_module,     \* self._core_module
    root_module,     \* self._root_module
    provider_calls,  \* calls received by the stored values' add_provider
    last,            \* the last mutating call made to the manager and its outcome
    query,           \* the lookup made on the tree and what it returned
    ops              \* number of calls made

VARIABLES
    lookup_args,     \* parent_id and predicate given to get_module_dependencies
    provided,        \* the last ProviderConfig built and what it registered
    bindings         \* the container: base type -> binding record

VARIABLES
    conns,           \* connection -> its state and scope type
    slot,            \* concurrency unit -> the boundary published to it, or None
    boundary_cache,  \* connection -> the private cache of its resolution boundary
    next_id,         \* the serial number of the next object made
    stack,           \* the resolution in progress, innermost frame last
    request,         \* the resolution last asked for and its outcome
    resolved,        \* every instance a resolution has yielded, and where
    constructed,     \* every instance create_object has made, and where
    last_context     \* the last call on a context factory

VARIABLES
    auth,            \* the last call of HttpBasicAuth._get_credentials and its outcome
    session,         \* the last call of SessionMiddleware.__call__ and what it did
    handlers         \* connection -> the run of the handler serving it

\* connections and their published boundaries
connVars == <<conns, slot, boundary_cache>>
\* what a resolution reads and writes besides the container
resolveVars == <<next_id, stack, request, resolved, constructed>>
diVars == <<connVars, resolveVars, last_context>>

\* the guard, the session middleware and the handlers
appVars == <<auth, session, handlers>>

\* the state outside the manager's own calls
extVars == <<lookup_args, provided, bindings, diVars, appVars>>

vars == <<modules, core_module, root_module, provider_calls, last, query, ops,
          lookup_args, provided, bindings, conns, slot, boundary_cache, next_id,
          stack, request, resolved, constructed, last_context,
          auth, session, handlers>>

Call(op, module_type, value, parent, dependency, provider, export, result, outcome) ==
    [op |-> op, module |-> module_type, value |-> value, parent |-> parent,
     dependency |-> dependency, provider |-> provider, export |-> export,
     result |-> result, outcome |-> outcome]

NoCall == Call("init", None, NoValue, None, None, None, FALSE, None, "ok")

Query(op, filter_item, find_predicate, on_none, r) ==
    [op |-> op, filter_item |-> filter_item, find_predicate |-> find_predicate,
     on_none |-> on_none, result |-> r.result, trace |-> r.trace, outcome |-> r.outcome]

NoQuery == Query("none", {}, {}, "raise", Visit(<<>>, <<>>, "ok"))

\* __init__(app_core_module)
Construct(app_core_module) ==
    LET core == IF app_core_module # NoValue THEN app_core_module.module ELSE None
        r == IF app_core_module # NoValue
             THEN AddModule(<<>>, None, core, app_core_module.module, app_core_module, None)
             ELSE Outcome(<<>>, None, "ok")
    IN  /\ core_module = core
        /\ modules = r.modules
        /\ root_module = r.root

NoLookupArgs == [parent_id |-> None, has_predicate |-> FALSE]

Provided(outcome, base_type, use_value, use_class, config, calls) ==
    [outcome |-> outcome, base_type |-> base_type, use_value |-> use_value,
     use_class |-> use_class, config |-> config, calls |-> calls]

NothingProvided == Provided("none", None, None, None, NoConfig, <<>>)

ContextCall(n, op, factory, unit, scope_type, operation, channel, outcome, context) ==
    [n |-> n, op |-> op, factory |-> factory, unit |-> unit, scope_type |-> scope_type,
     operation |-> operation, channel |-> channel, outcome |-> outcome,
     context |-> context]
NoOperation == [endpoint |-> None]
NoChannel == [receive |-> None, send |-> None]
NoContextCall ==
    ContextCall(0, "none", None, None, None, NoOperation, NoChannel, "none", NoContext)

ExtInit ==
    /\ lookup_args = NoLookupArgs
    /\ provided = NothingProvided
    /\ bindings = EmptyContainer
    /\ conns = [c \in Conns |-> Unopened]
    /\ slot = [u \in Units |-> None]
    /\ boundary_cache = [c \in Conns |-> EmptyCache]
    /\ next_id = 1
    /\ stack = <<>>
    /\ request = NoRequest
    /\ resolved = {}
    /\ constructed = {}
    /\ last_context = NoContextCall
    /\ auth = NoAuthCall
    /\ session = NoSessionCall
    /\ handlers = [c \in Conns |-> IdleHandler]

Init ==
    /\ ExtInit
    /\ \E app_core_module \in CoreValues \cup {NoValue} : Construct(app_core_module)
    /\ provider_calls = <<>>
    /\ last = NoCall
    /\ query = NoQuery
    /\ ops = 0

add_module(module_type, value, parent_module) ==
    /\ ops < MaxOps
    /\ LET r == AddModule(modules, root_module, core_module, module_type, value, parent_module)
       IN  /\ modules' = r.modules
           /\ root_module' = r.root
           /\ last' = Call("add_module", module_type, value, parent_module,
                           None, None, FALSE, None, r.outcome)
    /\ ops' = ops + 1
    /\ UNCHANGED <<core_module, provider_calls, query>>
    /\ UNCHANGED extVars

update_module(module_type, value, parent_module) ==
    /\ ops < MaxOps
    /\ LET r == UpdateModule(modules, root_module, module_type, value, parent_module)
       IN  /\ modules' = r.modules
           /\ root_module' = r.root
           /\ last' = Call("update_module", module_type, value, parent_module,
                           None, None, FALSE, None, r.outcome)
    /\ ops' = ops + 1
    /\ UNCHANGED <<core_module, provider_calls, query>>
    /\ UNCHANGED extVars

add_or_update(module_type, value, parent_module) ==
    /\ ops < MaxOps
    /\ LET r == AddOrUpdate(modules, root_module, core_module, module_type, value, parent_module)
       IN  /\ modules' = r.modules
           /\ root_module' = r.root
           /\ last' = Call("add_or_update", module_type, value, parent_module,
                           None, None, FALSE, None, r.outcome)
    /\ ops' = ops + 1
    /\ UNCHANGED <<core_module, provider_calls, query>>
    /\ UNCHANGED extVars

add_module_dependency(parent_module, dependency) ==
    /\ ops < MaxOps
    /\ LET r == AddModuleDependency(modules, root_module, parent_module, dependency)
       IN  /\ modules' = r.modules
           /\ root_module' = r.root
           /\ last' = Call("add_module_dependency", parent_module, NoValue, None,
                           dependency, None, FALSE, None, r.outcome)
    /\ ops' = ops + 1
    /\ UNCHANGED <<core_module, provider_calls, query>>
    /\ UNCHANGED extVars

add_provider(module_type, provider_type, export) ==
    /\ ops < MaxOps
    /\ LET r == AddProvider(modules, module_type, provider_type, export)
       IN  /\ provider_calls' = provider_calls \o r.calls
           /\ last' = Call("add_provider", module_type, NoValue, None,
                           None, provider_type, export, None, r.outcome)
    /\ ops' = ops + 1
    /\ UNCHANGED <<modules, core_module, root_module, query>>
    /\ UNCHANGED extVars

read_root_module ==
    /\ ops < MaxOps
    /\ LET r == RootModule(root_module)
       IN  last' = Call("root_module", None, NoValue, None,
                        None, None, FALSE, r.result, r.outcome)
    /\ ops' = ops + 1
    /\ UNCHANGED <<modules, core_module, root_module, provider_calls, query>>
    /\ UNCHANGED extVars

Next ==
    \/ \E m \in CallIds, v \in Values, p \in Parents : add_module(m, v, p)
    \/ \E m \in CallIds, v \in Values, p \in Parents : update_module(m, v, p)
    \/ \E m \in CallIds, v \in Values, p \in Parents : add_or_update(m, v, p)
    \/ \E p \in CallIds, d \in CallIds : add_module_dependency(p, d)
    \/ \E m \in CallIds, pt \in Providers, e \in BOOLEAN : add_provider(m, pt, e)
    \/ read_root_module

Spec == Init /\ [][Next]_vars

\* ------------------------------------------- bootstrap, then one lookup
\* The module compiler registers each module with its own setup object; the
\* lookups read the tree and change nothing, so a behaviour takes one of them.
bootstrap_add_module(module_type, parent_module) ==
    /\ query.op = "none"
    /\ LET r == AddModule(modules, root_module, core_module, module_type,
                          SetupOf(module_type), parent_module)
       IN  /\ modules' = r.modules
           /\ root_module' = r.root
    /\ UNCHANGED <<core_module, provider_calls, last, query, ops>>
    /\ UNCHANGED extVars

find_module(predicate) ==
    /\ query.op = "none"
    /\ query' = Query("find_module", predicate, {}, "raise",
                      Visit(FindModule(modules, predicate), <<>>, "ok"))
    /\ UNCHANGED <<modules, core_module, root_module, provider_calls, last, ops>>
    /\ UNCHANGED extVars

search_module_tree(filter_item, find_predicate, on_none) ==
    /\ query.op = "none"
    /\ LET r == SearchModuleTree(modules, filter_item, find_predicate, on_none)
       IN  query' = Query("search_module_tree", filter_item, find_predicate, on_none,
                          Visit(IF r.result = None THEN <<>> ELSE <<r.result>>,
                                r.trace, r.outcome))
    /\ UNCHANGED <<modules, core_module, root_module, provider_calls, last, ops>>
    /\ UNCHANGED extVars

NextSearch ==
    \/ \E m \in Ids, p \in Ids \cup {None} : bootstrap_add_module(m, p)
    \/ \E f \in MatchSets : find_module(f)
    \/ \E f \in FilterSets, p \in MatchSets, n \in OnNone : search_module_tree(f, p, n)

SpecSearch == Init /\ [][NextSearch]_vars

\* --------------------- bootstrap with extra dependencies, then one lookup
bootstrap_add_module_dependency(parent_module, dependency) ==
    /\ query.op = "none"
    /\ ops < MaxDependencyCalls
    /\ LET r == AddModuleDependency(modules, root_module, parent_module, dependency)
       IN  /\ modules' = r.modules
           /\ root_module' = r.root
    /\ ops' = ops + 1
    /\ UNCHANGED <<core_module, provider_calls, last, query>>
    /\ UNCHANGED extVars

get_module_dependencies(parent_id, has_predicate, predicate) ==
    /\ query.op = "none"
    /\ query' = Query("get_module_dependencies", predicate, {}, "raise",
                      Visit(GetModuleDependencies(modules, parent_id, has_predicate,
                                                  predicate),
                            <<>>, "ok"))
    /\ lookup_args' = [parent_id |-> parent_id, has_predicate |-> has_predicate]
    /\ UNCHANGED <<provided, bindings, diVars, appVars>>
    /\ UNCHANGED <<modules, core_module, root_module, provider_calls, last, ops>>

NextDependencies ==
    \/ \E m \in CallIds, p \in Parents : bootstrap_add_module(m, p)
    \/ \E p \in CallIds, d \in Ids : bootstrap_add_module_dependency(p, d)
    \/ \E p \in CallIds, h \in BOOLEAN, f \in MatchSets :
          get_module_dependencies(p, h, f)

SpecDependencies == Init /\ [][NextDependencies]_vars

\* ------------------------------------------- declaring and registering providers
treeVars == <<modules, core_module, root_module, provider_calls, last, query, ops>>

\* ProviderConfig(base_type, use_value=..., use_class=...).register(container)
provide(base_type, use_value, use_class) ==
    /\ LET built == ProviderConfigInit(base_type, use_value, use_class)
           calls == IF built.outcome = "ok" THEN Register(built.config) ELSE <<>>
       IN  /\ provided' = Provided(built.outcome, base_type, use_value, use_class,
                                   built.config, calls)
           /\ bindings' = ContainerApplyAll(bindings, calls, 1)
    /\ UNCHANGED treeVars
    /\ UNCHANGED appVars
    /\ UNCHANGED <<lookup_args, diVars>>

\* the base types and classes the module definitions bind
ProvidedBases == {"Logger", "HostContextFactory"}
ProvidedClasses == {"ConsoleLogger", "HostContextFactory", "Legacy"}

NextProvider ==
    \E b \in ProvidedBases, v \in UseValues, c \in ProvidedClasses \cup {None} :
        provide(b, v, c)

SpecProvider == Init /\ [][NextProvider]_vars

\* ------------------------------------------------------------------ connections
\* the transport delivers a connection: its boundary is allocated and
\* published to the unit that handles it
open_connection(c, type) ==
    /\ stack = <<>>
    /\ conns[c].state = "unopened"
    /\ conns' = [conns EXCEPT ![c] = Connection("open", type)]
    /\ boundary_cache' = [boundary_cache EXCEPT ![c] = EmptyCache]
    /\ slot' = [slot EXCEPT ![c] = c]
    /\ UNCHANGED treeVars
    /\ UNCHANGED appVars
    /\ UNCHANGED <<lookup_args, provided, bindings, resolveVars, last_context>>

\* the handler of the connection ends: its boundary is torn down
close_connection(c) ==
    /\ stack = <<>>
    /\ conns[c].state = "open"
    /\ conns' = [conns EXCEPT ![c].state = "closed"]
    /\ boundary_cache' = [boundary_cache EXCEPT ![c] = EmptyCache]
    /\ slot' = [slot EXCEPT ![c] = None]
    /\ UNCHANGED treeVars
    /\ UNCHANGED appVars
    /\ UNCHANGED <<lookup_args, provided, bindings, resolveVars, last_context>>

\* ------------------------------------------------------------- context factories
MaxContextCalls == 2

\* factory.validate(context) for the host context of an open connection
validate(factory, c) ==
    /\ last_context.n < MaxContextCalls
    /\ conns[c].state = "open"
    /\ last_context' = ContextCall(last_context.n + 1, "validate", factory, c,
                                   conns[c].type, NoOperation, NoChannel,
                                   Validate(factory, conns[c].type), NoContext)
    /\ UNCHANGED treeVars
    /\ UNCHANGED appVars
    /\ UNCHANGED <<lookup_args, provided, bindings, connVars, resolveVars>>

\* ExecutionContextFactory.create_context(operation, scope, receive, send)
\* called in a concurrency unit
create_context(unit, operation, scope_type, channel) ==
    /\ last_context.n < MaxContextCalls
    /\ LET r == CreateContext(slot[unit], last_context.n + 1, operation, scope_type,
                              channel.receive, channel.send)
       IN  last_context' = ContextCall(last_context.n + 1, "create_context",
                                       "ExecutionContextFactory", unit, scope_type,
                                       operation, channel, r.outcome, r.context)
    /\ UNCHANGED treeVars
    /\ UNCHANGED appVars
    /\ UNCHANGED <<lookup_args, provided, bindings, connVars, resolveVars>>

NextContext ==
    \/ \E c \in Conns, type \in ScopeTypes : open_connection(c, type)
    \/ \E c \in Conns : close_connection(c)
    \/ \E factory \in ContextFactories, c \in Conns : validate(factory, c)
    \/ \E unit \in Units, operation \in Operations, scope_type \in ScopeTypes,
          channel \in Channels :
            create_context(unit, operation, scope_type, channel)

SpecContext == Init /\ [][NextContext]_vars

\* -------------------------------------------------------------------- resolution
MaxResolves == 3

\* the application's modules register their providers, before any connection
bootstrap_register ==
    /\ bindings = EmptyContainer
    /\ bindings' = RegisterAll(bindings, AppProviders, 1)
    /\ UNCHANGED treeVars
    /\ UNCHANGED appVars
    /\ UNCHANGED <<lookup_args, provided, diVars>>

\* container.resolve(base_type, boundary) is called
resolve(base_type, boundary) ==
    /\ bindings # EmptyContainer
    /\ stack = <<>>
    /\ request.n < MaxResolves
    /\ boundary # None => conns[boundary].state = "open"
    /\ request' = Request(request.n + 1, base_type, boundary, "pending", NoInstance)
    /\ stack' = <<Frame(base_type, None, "lookup", 0)>>
    /\ UNCHANGED treeVars
    /\ UNCHANGED appVars
    /\ UNCHANGED <<lookup_args, provided, bindings, connVars, last_context>>
    /\ UNCHANGED <<next_id, resolved, constructed>>

\* the resolution in progress takes its next step
resolve_step ==
    /\ stack # <<>>
    /\ LET r == ResolveStep(Resolution(bindings, boundary_cache, next_id, stack,
                                       request, resolved, constructed))
       IN  /\ bindings' = r.bindings
           /\ boundary_cache' = r.boundary_cache
           /\ next_id' = r.next_id
           /\ stack' = r.stack
           /\ request' = r.request
           /\ resolved' = r.resolved
           /\ constructed' = r.constructed
    /\ UNCHANGED treeVars
    /\ UNCHANGED appVars
    /\ UNCHANGED <<lookup_args, provided, conns, slot, last_context>>

\* the types application code asks the container for
ResolveTypes == {"Logger", "Service", "HostContextFactory", "ExecutionContextFactory",
                 "P", "X", "Legacy"}

NextResolve ==
    \/ bootstrap_register
    \/ \E c \in Conns : open_connection(c, "http")
    \/ \E c \in Conns : close_connection(c)
    \/ \E base_type \in ResolveTypes, boundary \in Conns \cup {None} :
          resolve(base_type, boundary)
    \/ resolve_step

SpecResolve == Init /\ [][NextResolve]_vars

\* resolutions asked for outside every connection; a resolution is a
\* synchronous call, so one in progress always takes its next step
NextCycle ==
    \/ bootstrap_register
    \/ \E base_type \in ResolveTypes : resolve(base_type, None)
    \/ resolve_step

SpecCycle == Init /\ [][NextCycle]_vars /\ WF_vars(resolve_step)

\* ------------------------------------------------------------ the basic guard

\* one call of HttpBasicAuth._get_credentials on a connection carrying the header
get_credentials(realm, authorization) ==
    /\ auth' = [op |-> "_get_credentials", realm |-> realm,
                authorization |-> authorization,
                result |-> GetCredentials(realm, authorization)]
    /\ UNCHANGED treeVars
    /\ UNCHANGED <<lookup_args, provided, bindings, diVars, session, handlers>>

NextAuth ==
    \E realm \in {None, "api"}, authorization \in Headers :
        get_credentials(realm, authorization)

SpecAuth == Init /\ [][NextAuth]_vars

\* ------------------------------------------------------ the session middleware

\* a SessionMiddleware is built and called once, around an inner app that
\* follows `script`; `cookie` is the session cookie of the connection, if any
session_call(session_service, config, scope, cookie, loaded, script) ==
    /\ session.op = "none"
    /\ session' =
           [op |-> "__call__", session_service |-> session_service,
            config |-> config, scope |-> scope, cookie |-> cookie, script |-> script,
            result |-> SessionCall(SessionMiddlewareInit(session_service, config),
                                   scope, cookie, loaded, script)]
    /\ UNCHANGED treeVars
    /\ UNCHANGED <<lookup_args, provided, bindings, diVars, auth, handlers>>

NextSession ==
    /\ session.op = "none"
    /\ \E session_service \in {"SessionServiceNullStrategy", "SessionClientStrategy"},
          config \in {[k \in {} |-> "False"]} \cup
                     {[k \in {"SESSION_DISABLED"} |-> v] : v \in {"True", "False"}},
          scope \in {[k \in {"type"} |-> t] : t \in {"http", "websocket", "lifespan"}},
          cookie \in {None, "signed"},
          loaded \in Sessions,
          script \in AppScripts :
           session_call(session_service, config, scope, cookie, loaded, script)

SpecSession == Init /\ [][NextSession]_vars

\* ------------------------------------------------------------------ handlers

\* the transport delivers connection c: its boundary is allocated and published
\* to the unit that handles it, and _handle starts
accept(c, is_coroutine) ==
    /\ bindings # EmptyContainer
    /\ conns[c].state = "unopened"
    /\ conns' = [conns EXCEPT ![c] = Connection("open", "http")]
    /\ boundary_cache' = [boundary_cache EXCEPT ![c] = EmptyCache]
    /\ slot' = [slot EXCEPT ![c] = c]
    /\ handlers' = [handlers EXCEPT
                       ![c] = Handler("controller", None, is_coroutine, None, {}, {})]
    /\ UNCHANGED treeVars
    /\ UNCHANGED <<lookup_args, provided, bindings, resolveVars, last_context>>
    /\ UNCHANGED <<auth, session>>

\* the handler of c takes a step of _handle
handle(c, event) ==
    /\ conns[c].state = "open"
    /\ Handle(handlers[c], slot[c], event) # handlers[c]
    /\ handlers' = [handlers EXCEPT ![c] = Handle(handlers[c], slot[c], event)]
    /\ UNCHANGED treeVars
    /\ UNCHANGED <<lookup_args, provided, bindings, diVars, auth, session>>

\* code running for c (the controller's construction, the parameters, the
\* endpoint) creates its context and resolves a request-scoped type in the
\* boundary it reads from the slot
resolve_in_handler(c, base_type) ==
    /\ conns[c].state = "open"
    /\ handlers[c].phase
          \in {"controller", "resolve_dependencies", "endpoint", "run_in_threadpool"}
    /\ request.n < MaxResolves
    /\ LET boundary == CurrentBoundary(slot, handlers[c], c)
           context == CreateContext(boundary, request.n + 1, NoOperation,
                                    conns[c].type, "receive", "send")
           r == ResolveAll(Resolution(bindings, boundary_cache, next_id,
                                      <<Frame(base_type, None, "lookup", 0)>>,
                                      Request(request.n + 1, base_type, boundary,
                                              "pending", NoInstance),
                                      resolved, constructed))
       IN  /\ context.outcome = "ok"
           /\ conns[boundary].state = "open"
           /\ bindings' = r.bindings
           /\ boundary_cache' = r.boundary_cache
           /\ next_id' = r.next_id
           /\ request' = r.request
           /\ resolved' = r.resolved
           /\ constructed' = r.constructed
           /\ handlers' = [handlers EXCEPT
                  ![c].read = @ \cup {boundary},
                  ![c].got = IF r.request.outcome = "ok"
                             THEN @ \cup {r.request.instance} ELSE @]
    /\ UNCHANGED treeVars
    /\ UNCHANGED <<lookup_args, provided, conns, slot, stack, last_context>>
    /\ UNCHANGED <<auth, session>>

\* the handler of c has left: its boundary is torn down
teardown(c) ==
    /\ conns[c].state = "open"
    /\ TeardownDue(handlers[c])
    /\ conns' = [conns EXCEPT ![c].state = "closed"]
    /\ boundary_cache' = [boundary_cache EXCEPT ![c] = EmptyCache]
    /\ slot' = [slot EXCEPT ![c] = None]
    /\ UNCHANGED treeVars
    /\ UNCHANGED appVars
    /\ UNCHANGED <<lookup_args, provided, bindings, resolveVars, last_context>>

NextLifecycle ==
    \/ bootstrap_register
    \/ \E c \in Conns, is_coroutine \in BOOLEAN : accept(c, is_coroutine)
    \/ \E c \in Conns, event \in {"proceed", "errors", "raise", "cancel"} :
          handle(c, event)
    \/ \E c \in Conns : resolve_in_handler(c, "ExecutionContextFactory")
    \/ \E c \in Conns : teardown(c)

\* teardown is the release step of a guaranteed-release discipline: once it is
\* due, the unit that ran the handler runs it
SpecLifecycle ==
    Init /\ [][NextLifecycle]_vars /\ \A c \in Conns : WF_vars(teardown(c))

\* ================================================================ claims
TreeUnchanged ==
    /\ modules' = modules
    /\ root_module' = root_module
    /\ core_module' = core_module

\* every module is registered under the module of its own value, as the
\* constructor registers the core module
RegisteredUnderOwnModule(mods) ==
    \A i \in 1..Len(mods) : mods[i].data.value.module = mods[i].key

\* C1: add_module with a module id that is already in the tree raises the
\* duplicate-module error and leaves every entry (value, parent, dependency
\* list, position) and the root designation as they were.
C1_DuplicateAddRejected ==
    [][(last'.op = "add_module" /\ Has(modules, last'.module))
        => (last'.outcome = "DuplicateModuleError" /\ TreeUnchanged)]_vars

\* a duplicate add_module has been rejected on a tree holding two modules
C1_Witness ==
    /\ last.op = "add_module"
    /\ last.outcome = "DuplicateModuleError"
    /\ Has(modules, last.module)
    /\ Len(modules) >= 2

\* C2: add_module of a new module id with a parent that is not in the tree
\* fails with the missing-parent error; with a parent that is in the tree it
\* succeeds and appends the module id to the parent's dependency list.
C2_MissingParentRejected ==
    [][(/\ last'.op = "add_module"
        /\ ~Has(modules, last'.module)
        /\ last'.parent # None
        /\ RegisteredUnderOwnModule(modules'))
        => IF ~Has(modules, last'.parent)
           THEN last'.outcome = "MissingParentError"
           ELSE /\ last'.outcome = "ok"
                /\ get_module(modules', last'.parent).dependencies
                     = Append(get_module(modules, last'.parent).dependencies,
                              last'.module)]_vars

\* C3: once a root is set, add_module of a further module under the core
\* module raises the multiple-roots error, so add_module never gives the core
\* module a second dependency.
C3_SingleRootUnderCore ==
    [][(last'.op = "add_module" /\ core_module # None
          /\ RegisteredUnderOwnModule(modules'))
        => /\ (/\ root_module # None
               /\ last'.parent = core_module
               /\ ~Has(modules, last'.module))
              => last'.outcome = "MultipleRootsError"
           /\ LET deps == get_module(modules', core_module).dependencies
              IN  \/ Len(deps) <= 1
                  \/ deps = get_module(modules, core_module).dependencies]_vars

\* C6: add_or_update ends in the same tree and the same outcome as
\* add_module when the module id is absent and as update_module when it is
\* present, for every id, value and parent.
C6_AddOrUpdateEquivalent ==
    [][(last'.op = "add_or_update" /\ RegisteredUnderOwnModule(modules'))
        => LET same ==
                   IF Has(modules, last'.module)
                   THEN UpdateModule(modules, root_module, last'.module,
                                     last'.value, last'.parent)
                   ELSE AddModule(modules, root_module, core_module, last'.module,
                                  last'.value, last'.parent)
           IN  /\ modules' = same.modules
               /\ root_module' = same.root
               /\ last'.outcome = same.outcome]_vars

\* C7: a successful update_module replaces the stored value of the module,
\* keeps its dependency list, takes the supplied parent or else keeps the
\* previous one, and leaves every other entry, the order of the entries and
\* the root designation unchanged.
C7_UpdateReplacesValueOnly ==
    [][(last'.op = "update_module" /\ last'.outcome = "ok")
        => LET old == get_module(modules, last'.module)
               new == get_module(modules', last'.module)
           IN  /\ Has(modules, last'.module)
               /\ new.value = last'.value
               /\ new.dependencies = old.dependencies
               /\ new.parent = IF last'.parent # None THEN last'.parent ELSE old.parent
               /\ Len(modules') = Len(modules)
               /\ \A i \in 1..Len(modules) :
                     /\ modules'[i].key = modules[i].key
                     /\ modules[i].key # last'.module => modules'[i] = modules[i]
               /\ root_module' = root_module
               /\ core_module' = core_module]_vars

\* update_module without a parent has replaced the value of a module that
\* has a dependency, in a tree holding another module
C7_Witness ==
    /\ last.op = "update_module"
    /\ last.outcome = "ok"
    /\ last.parent = None
    /\ get_module(modules, last.module).value = last.value
    /\ get_module(modules, last.module).dependencies # <<>>
    /\ Len(modules) >= 2

\* C8: add_provider on a module in the tree raises nothing and leaves the
\* tree unchanged; it hands the provider and the export flag to the value's
\* add_provider once when the module is ready and not at all otherwise.
C8_AddProviderWritesThroughWhenReady ==
    [][(last'.op = "add_provider" /\ Has(modules, last'.module))
        => LET value == get_module(modules, last'.module).value
           IN  /\ last'.outcome = "ok"
               /\ TreeUnchanged
               /\ provider_calls' =
                     IF value.is_ready
                     THEN Append(provider_calls,
                                 [value |-> value, provider |-> last'.provider,
                                  export |-> last'.export])
                     ELSE provider_calls]_vars

\* add_provider with export set has been called on a ready module, next to a
\* module that is not ready, and was forwarded once
C8_Witness ==
    /\ last.op = "add_provider"
    /\ last.outcome = "ok"
    /\ last.export
    /\ get_module(modules, last.module).value.is_ready
    /\ \E i \in 1..Len(modules) : ~modules[i].data.value.is_ready
    /\ provider_calls = <<[value |-> get_module(modules, last.module).value,
                           provider |-> last.provider, export |-> TRUE]>>

\* the two cases in which add_module designates the root, and no other step
\* changes it; reading root_module fails exactly while no root is set
RootDesignation ==
    /\ root_module' # root_module
        => /\ root_module = None
           /\ last'.op \in {"add_module", "add_or_update"}
           /\ \/ /\ last'.parent # None
                 /\ last'.parent = core_module
                 /\ root_module' = last'.value.module
              \/ /\ last'.parent = None
                 /\ core_module = None
                 /\ root_module' = last'.module
    /\ (/\ last'.op = "add_module"
        /\ last'.outcome = "ok"
        /\ root_module = None
        /\ last'.parent # None
        /\ last'.parent = core_module)
        => root_module' = last'.value.module
    /\ (/\ last'.op = "add_module"
        /\ last'.outcome = "ok"
        /\ root_module = None
        /\ last'.parent = None
        /\ core_module = None)
        => root_module' = last'.module
    /\ last'.op = "root_module"
        => /\ (last'.outcome = "AssertionError") <=> (root_module = None)
           /\ last'.outcome = "ok" => last'.result = root_module

\* C9 (as stated): the root is designated by add_module in exactly the two
\* cases, reading root_module before that fails, and the core module
\* registered by the constructor never becomes the root.
C9_CoreNeverRoot ==
    [][/\ RootDesignation
       /\ core_module' # None => root_module' # core_module']_vars

\* C9 (amended): the root is designated by add_module in exactly the two
\* cases and reading root_module before that fails; the constructor leaves
\* the root unset, and the core module becomes the root only when a value
\* whose module is the core module is added under the core module.
C9_RootDesignatedByAddModule ==
    /\ root_module = None
    /\ [][/\ RootDesignation
          /\ (root_module' # root_module /\ root_module' = core_module)
              => (last'.parent = core_module /\ last'.value.module = core_module)]_vars

\* a module added under the core module made its value's module, which is
\* not the key it was registered under, the root, and root_module was read
C9_Witness ==
    /\ core_module # None
    /\ last.op = "root_module"
    /\ last.outcome = "ok"
    /\ last.result = root_module
    /\ \E i \in 1..Len(modules) :
          /\ modules[i].data.parent = core_module
          /\ modules[i].data.value.module = root_module
          /\ modules[i].key # root_module

\* ------------------------------------------------------------ lookups
\* the pre-order listing of the nodes below k: k, then the listing of each of
\* its stored dependencies in the order of the dependency list
RECURSIVE PreOrder(_, _, _), PreOrderOfAll(_, _, _, _)
PreOrder(mods, k, above) ==
    IF k \in above \/ ~Has(mods, k) THEN <<>>
    ELSE <<k>> \o PreOrderOfAll(mods, get_module(mods, k).dependencies, 1,
                               above \cup {k})

PreOrderOfAll(mods, ks, i, above) ==
    IF i > Len(ks) THEN <<>>
    ELSE PreOrder(mods, ks[i], above) \o PreOrderOfAll(mods, ks, i + 1, above)

\* the nodes matching filter_item, in the order they were registered
RECURSIVE Starts(_, _, _)
Starts(mods, filter_item, i) ==
    IF i > Len(mods) THEN <<>>
    ELSE (IF mods[i].data.value.module \in filter_item THEN <<mods[i].key>> ELSE <<>>)
         \o Starts(mods, filter_item, i + 1)

\* the order in which a parent-first, insertion-order search meets the nodes
SearchOrder(mods, filter_item) ==
    PreOrderOfAll(mods, Starts(mods, filter_item, 1), 1, {})

\* position of the first node of listing accepted by find_predicate, else 0
FirstMatch(mods, listing, find_predicate) ==
    IF \E i \in 1..Len(listing) : get_module(mods, listing[i]).value.module \in find_predicate
    THEN CHOOSE i \in 1..Len(listing) :
           /\ get_module(mods, listing[i]).value.module \in find_predicate
           /\ \A j \in 1..(i - 1) :
                 get_module(mods, listing[j]).value.module \notin find_predicate
    ELSE 0

\* the tree root -> {A, B}, A -> {C}
ExampleTree(mods) ==
    /\ Keys(mods) = {"R", "A", "B", "C"}
    /\ RegisteredUnderOwnModule(mods)
    /\ get_module(mods, "R").dependencies = <<"A", "B">>
    /\ get_module(mods, "A").dependencies = <<"C">>
    /\ get_module(mods, "B").dependencies = <<>>
    /\ get_module(mods, "C").dependencies = <<>>

\* C4: search_module_tree hands nodes to find_predicate in pre-order (a node
\* before its dependencies, dependencies in the order they were added) and
\* returns the first node accepted without testing a later one; on
\* root -> {A, B}, A -> {C} with only C accepted it tests root, A, C and not B.
C4_SearchIsPreOrder ==
    (/\ query.op = "search_module_tree"
     /\ query.outcome = "ok"
     /\ Starts(modules, query.filter_item, 1) # <<>>)
    => LET listing == SearchOrder(modules, query.filter_item)
           first == FirstMatch(modules, listing, query.find_predicate)
       IN  /\ first = 0
               => (query.result = <<>> /\ query.trace = listing)
           /\ first > 0
               => /\ query.result = <<listing[first]>>
                  /\ query.trace = SubSeq(listing, 1, first)
           /\ (/\ ExampleTree(modules)
               /\ query.filter_item = {"R"}
               /\ query.find_predicate = {"C"})
               => (query.trace = <<"R", "A", "C">> /\ query.result = <<"C">>)

\* the search of root -> {A, B}, A -> {C} for C, started at the root
C4_Witness ==
    /\ query.op = "search_module_tree"
    /\ ExampleTree(modules)
    /\ query.filter_item = {"R"}
    /\ query.find_predicate = {"C"}
    /\ query.outcome = "ok"
    /\ query.result = <<"C">>

\* C5: search_module_tree returns None without raising whenever no node
\* reachable from a node matching filter_item satisfies find_predicate, also
\* when no node matches filter_item and when the tree is empty.
C5_SearchReturnsNoneWhenNotFound ==
    (/\ query.op = "search_module_tree"
     /\ FirstMatch(modules, SearchOrder(modules, query.filter_item),
                   query.find_predicate) = 0)
    => (query.outcome = "ok" /\ query.result = <<>>)

\* C10: find_module yields each stored node accepted by the predicate once,
\* in the order of registration, and no None, when some node is accepted; it
\* yields exactly one None when none is, also on an empty tree.
C10_FindModuleYieldsMatchesOrOneNone ==
    query.op = "find_module"
    => LET accepted == {k \in Keys(modules) :
                          get_module(modules, k).value.module \in query.filter_item}
       IN  IF accepted = {}
           THEN query.result = <<None>>
           ELSE /\ {query.result[i] : i \in 1..Len(query.result)} = accepted
                /\ Len(query.result) = Cardinality(accepted)
                /\ \A i, j \in 1..Len(query.result) :
                      i < j => IndexOf(modules, query.result[i])
                                 < IndexOf(modules, query.result[j])

\* find_module has yielded two of the stored nodes and left out a third
C10_Witness ==
    /\ query.op = "find_module"
    /\ Len(query.result) = 2
    /\ None \notin {query.result[i] : i \in 1..Len(query.result)}
    /\ Len(modules) >= 3

\* C11: get_module_dependencies returns the entries of the parent's
\* dependency list that are stored in the tree and accepted by the predicate,
\* in the order of the list and nothing else (no child of a child that is not
\* itself listed); it returns the empty list for a parent not in the tree.
C11_DirectChildrenOnly ==
    query.op = "get_module_dependencies"
    => LET parent == get_module(modules, lookup_args.parent_id)
           Kept(k) == /\ Has(modules, k)
                      /\ lookup_args.has_predicate
                          => get_module(modules, k).value.module \in query.filter_item
       IN  /\ query.outcome = "ok"
           /\ ~Has(modules, lookup_args.parent_id) => query.result = <<>>
           /\ Has(modules, lookup_args.parent_id)
               => query.result = SelectSeq(parent.dependencies, Kept)

\* the lookup on R, whose list holds its child A and a module C that is not
\* stored, returned A alone and not B, the child of A
C11_Witness ==
    /\ query.op = "get_module_dependencies"
    /\ lookup_args.parent_id = "R"
    /\ query.result = <<"A">>
    /\ Keys(modules) = {"R", "A", "B"}
    /\ get_module(modules, "A").parent = "R"
    /\ get_module(modules, "B").parent = "A"
    /\ get_module(modules, "A").dependencies = <<"B">>
    /\ \E i \in 1..Len(get_module(modules, "R").dependencies) :
          get_module(modules, "R").dependencies[i] = "C"

\* =================================================== provider configuration
\* C12: ProviderConfig(base_type, use_value=X, use_class=Y) fails with the
\* configuration error for every X and Y that are both not None, false values
\* of X included, so no ProviderConfig holds both a use_value and a use_class.
C12_ValueAndClassExclusive ==
    /\ (/\ provided.outcome # "none"
        /\ provided.use_value # None
        /\ provided.use_class # None)
       => provided.outcome = "ImproperConfiguration"
    /\ ~(provided.config.use_value # None /\ provided.config.use_class # None)

\* C13: register makes exactly one call on the container: add_singleton with
\* the supplied instance whenever a use_value (any value but None) was given,
\* register base_type -> use_class whenever a use_class was given, and the
\* self-binding of base_type only when neither was given.
C13_RegisterWritesWhatWasSupplied ==
    (/\ provided.outcome = "ok"
     /\ ~(provided.use_value # None /\ provided.use_class # None))
    => /\ Len(provided.calls) = 1
       /\ provided.use_value # None
           => /\ provided.calls[1].method = "add_singleton"
              /\ provided.calls[1].base_type = provided.base_type
              /\ provided.calls[1].concrete_type = provided.use_value
       /\ provided.use_class # None
           => /\ provided.calls[1].method = "register"
              /\ provided.calls[1].base_type = provided.base_type
              /\ provided.calls[1].concrete_type = provided.use_class
       /\ (provided.use_value = None /\ provided.use_class = None)
           <=> /\ provided.calls[1].method = "register"
               /\ provided.calls[1].base_type = provided.base_type
               /\ provided.calls[1].concrete_type = None

\* the scope marker a class declares: none for an undecorated class, Singleton
\* for injectable without a scope, S for injectable(scope=S) and for a scope
\* decorator S
DeclaredMarker(cls) ==
    LET d == Declaration(cls)
    IN  CASE d.form = "plain" -> None
          [] d.form = "bare" -> SingletonScope
          [] d.form = "call" /\ d.scope = None -> SingletonScope
          [] OTHER -> d.scope

MarkerOrSingleton(cls) ==
    IF DeclaredMarker(cls) = None THEN SingletonScope ELSE DeclaredMarker(cls)

GetScopeReportsDeclaration == \A cls \in Classes : get_scope(cls) = DeclaredMarker(cls)

\* C14 (as stated): the scope of the binding register writes is the marker
\* declared on use_class when one is supplied and on base_type otherwise,
\* Singleton when that class declares none; get_scope reports the declared
\* marker, None for an undeclared class.
C14_ScopeOfConcreteType ==
    /\ GetScopeReportsDeclaration
    /\ provided.outcome = "ok"
       => \A i \in 1..Len(provided.calls) :
            provided.calls[i].scope =
                MarkerOrSingleton(IF provided.use_class # None
                                  THEN provided.use_class ELSE provided.base_type)

\* C14 (amended): the scope passed to container.register is the marker
\* declared on the class it binds (use_class when supplied, else base_type),
\* Singleton when that class declares none; a use_value handed to
\* add_singleton is bound as a singleton whatever base_type declares;
\* get_scope reports the declared marker, None for an undeclared class.
C14_ScopeOfRegisteredClass ==
    /\ GetScopeReportsDeclaration
    /\ provided.outcome = "ok"
       => \A i \in 1..Len(provided.calls) :
            /\ provided.calls[i].method = "register"
               => provided.calls[i].scope =
                    MarkerOrSingleton(IF provided.use_class # None
                                      THEN provided.use_class ELSE provided.base_type)
            /\ provided.calls[i].method = "add_singleton"
               => provided.calls[i].scope = SingletonScope

\* Logger was bound to a class declared with injectable(scope=request_scope)
\* and the binding carries the request scope
C14_Witness ==
    /\ provided.outcome = "ok"
    /\ provided.base_type = "Logger"
    /\ provided.use_class = "HostContextFactory"
    /\ provided.calls[1].method = "register"
    /\ provided.calls[1].scope = request_scope

\* ========================================================== context factories
\* C15: WebSocketContextFactory.validate fails with the host-context type
\* error exactly when the scope type of the connection is not "websocket";
\* HTTPConnectionContextFactory.validate succeeds for every scope type.
C15_ValidateByScopeType ==
    last_context.op = "validate"
    => /\ last_context.scope_type = conns[last_context.unit].type
       /\ last_context.factory = "WebSocketContextFactory"
          => /\ last_context.outcome = "HostContextException"
                <=> last_context.scope_type # "websocket"
             /\ last_context.outcome = "ok"
                <=> last_context.scope_type = "websocket"
       /\ last_context.factory = "HTTPConnectionContextFactory"
          => last_context.outcome = "ok"

\* the websocket factory refused the context of an http connection
C15_Witness ==
    /\ last_context.op = "validate"
    /\ last_context.factory = "WebSocketContextFactory"
    /\ last_context.scope_type = "http"
    /\ last_context.outcome = "HostContextException"

\* a boundary is published to a unit exactly while the unit handles an open
\* connection
Published(unit) == unit \in Conns /\ conns[unit].state = "open"

CreateContextStep ==
    /\ last_context'.n = last_context.n + 1
    /\ last_context'.op = "create_context"

C16_CreateContextStep ==
    /\ \A u \in Units : slot[u] # None <=> Published(u)
    /\ CreateContextStep
       => LET call == last_context'
          IN  /\ call.outcome = "ServiceUnavailable" <=> ~Published(call.unit)
              /\ call.outcome = "ServiceUnavailable" => call.context = NoContext
              /\ Published(call.unit)
                 => /\ call.outcome = "ok"
                    /\ call.context.scope = call.scope_type
                    /\ call.context.receive = call.channel.receive
                    /\ call.context.send = call.channel.send
                    /\ call.context.operation_handler = call.operation.endpoint
                    /\ call.context.id # last_context.context.id
              /\ slot' = slot

\* C16: create_context fails with the context-unavailable error whenever no
\* boundary is published in the calling unit's slot (no connection opened yet,
\* the boundary closed, or background work), and otherwise returns a new
\* execution context carrying the given scope, receive, send and the
\* operation's endpoint; it never changes the slot.
C16_CreateContextNeedsPublishedBoundary == [][C16_CreateContextStep]_vars

\* the second call of create_context was refused in the unit of a connection
\* that has closed, while another connection is open
C16_Witness ==
    /\ last_context.op = "create_context"
    /\ last_context.outcome = "ServiceUnavailable"
    /\ last_context.unit = "c1"
    /\ conns["c1"].state = "closed"
    /\ conns["c2"].state = "open"
    /\ last_context.n = 2

\* ================================================================== resolution
Bootstrapped == bindings # EmptyContainer

SingletonBound(t) == BindingOf(bindings, t).scope = SingletonScope

RequestBound(t) == BindingOf(bindings, t).scope = request_scope

\* C17: every Singleton binding, the binding of Logger to ConsoleLogger
\* (use_class, no declared scope) included, yields one and the same instance
\* to every successful resolution, from whichever boundary or from none; the
\* instance is constructed at most once and stays the cached one.
C17_SingletonIdentity ==
    /\ Bootstrapped
       => /\ SingletonBound("Logger")
          /\ BindingOf(bindings, "Logger").concrete_type = "ConsoleLogger"
    /\ \A r1 \in resolved, r2 \in resolved :
          (r1.base_type = r2.base_type /\ SingletonBound(r1.base_type))
          => r1.instance = r2.instance
    /\ \A r \in resolved :
          SingletonBound(r.base_type) => bindings[r.base_type].instance = r.instance
    /\ \A t \in Classes :
          SingletonBound(t) => Cardinality({c \in constructed : c.base_type = t}) <= 1

\* Logger was resolved from both boundaries and from none, and all three
\* resolutions yielded the one ConsoleLogger made
C17_Witness ==
    \E instance \in {r.instance : r \in resolved} :
        /\ instance.of = "ConsoleLogger"
        /\ {Resolved("Logger", b, instance) : b \in Conns \cup {None}} \subseteq resolved
        /\ Cardinality({c \in constructed : c.base_type = "Logger"}) = 1

\* C18: a Request-scoped binding (the two context factories are declared so)
\* yields the same instance to resolutions inside one boundary and distinct
\* instances to resolutions from distinct boundaries, whatever the order of
\* the resolutions; it never has a process-wide cached instance.
C18_RequestIdentityPerBoundary ==
    /\ Bootstrapped
       => /\ RequestBound("HostContextFactory")
          /\ RequestBound("ExecutionContextFactory")
    /\ \A r1 \in resolved, r2 \in resolved :
          (r1.base_type = r2.base_type /\ RequestBound(r1.base_type))
          => (r1.boundary = r2.boundary <=> r1.instance = r2.instance)
    /\ \A t \in Classes : RequestBound(t) => bindings[t].instance = NoInstance

\* HostContextFactory was resolved three times, in c1, in c2 and again in one
\* of them: two instances were made, one per boundary
C18_Witness ==
    /\ request.n = 3
    /\ stack = <<>>
    /\ request.outcome = "ok"
    /\ \E i1 \in {r.instance : r \in resolved}, i2 \in {r.instance : r \in resolved} :
          /\ i1 # i2
          /\ resolved = {Resolved("HostContextFactory", "c1", i1),
                         Resolved("HostContextFactory", "c2", i2)}
          /\ constructed = resolved

\* the step that looks up the type a resolution was asked for
TopLookupStep ==
    /\ Len(stack) = 1
    /\ stack[1].phase = "lookup"
    /\ stack' # stack

C19_TopLookupStep ==
    TopLookupStep
    => /\ (RequestBound(request.base_type) /\ request.boundary = None)
          => /\ request'.outcome = "ScopeUnavailableError"
             /\ stack' = <<>>
             /\ UNCHANGED <<next_id, constructed, resolved, bindings, boundary_cache>>
       /\ BindingOf(bindings, request.base_type) = NoBinding
          => /\ request'.outcome = "UnboundTypeError"
             /\ stack' = <<>>
             /\ UNCHANGED <<next_id, constructed, resolved, bindings, boundary_cache>>

\* C19: resolving a Request-scoped binding with no boundary fails with the
\* scope-unavailable error, constructs nothing and caches nothing; resolving a
\* type that has no binding record fails with the unbound-type error.
C19_NoBoundaryNoBinding == [][C19_TopLookupStep]_vars

\* ExecutionContextFactory was asked for outside every boundary, after an
\* unbound type had been asked for
C19_Witness ==
    /\ request.n = 2
    /\ request.base_type = "ExecutionContextFactory"
    /\ request.boundary = None
    /\ request.outcome = "ScopeUnavailableError"
    /\ constructed = {}

CycleTypes == {"P", "Q", "X", "Y", "Z"}

NothingOfACycleKept ==
    /\ \A t \in CycleTypes :
          /\ BindingOf(bindings, t).instance = NoInstance
          /\ \A c \in Conns : CachedIn(boundary_cache[c], t) = NoInstance
    /\ \A c \in constructed : c.base_type \notin CycleTypes /\ c.instance.of \notin CycleTypes

CycleFails ==
    (request.base_type \in CycleTypes /\ stack = <<>>)
    => request.outcome = "CircularDependencyError"

\* C20: the resolution of a type on a dependency cycle (P and Q, or X, Y
\* and Z) always ends, with the circular-dependency error and before the
\* call-depth limit, and no instance of a type on the cycle is kept.
C20_CycleTerminates ==
    /\ [](CycleFails /\ NothingOfACycleKept /\ Len(stack) < RecursionLimit)
    /\ (stack # <<>>) ~> (stack = <<>>)

\* X, on the cycle of three, was asked for and the resolution has ended
C20_Witness ==
    /\ request.base_type = "X"
    /\ request.outcome = "CircularDependencyError"
    /\ stack = <<>>

\* ============================================================ tree structure
\* every stored module with a parent has that parent stored
ParentsPresent(mods) ==
    \A i \in 1..Len(mods) :
        mods[i].data.parent # None => Has(mods, mods[i].data.parent)

\* C24: add_module, update_module and add_or_update keep every stored
\* module's parent in the tree, and an add_module rejected for a missing
\* parent leaves the tree as it was, the rejected module not registered.
C24_ParentsPresent ==
    [][(/\ last'.op \in {"add_module", "update_module", "add_or_update"}
        /\ ParentsPresent(modules)
        /\ RegisteredUnderOwnModule(modules'))
        => /\ ParentsPresent(modules')
           /\ (last'.op = "add_module" /\ last'.outcome = "MissingParentError")
              => (TreeUnchanged /\ ~Has(modules', last'.module))]_vars

DependenciesOf(mods, k) ==
    LET deps == get_module(mods, k).dependencies
    IN  {deps[i] : i \in 1..Len(deps)}

\* the modules reached from a set of modules in at most n steps along
\* dependency lists
RECURSIVE ReachableFrom(_, _, _)
ReachableFrom(mods, from, n) ==
    IF n = 0 THEN from
    ELSE ReachableFrom(mods, from \cup UNION {DependenciesOf(mods, k) : k \in from},
                       n - 1)

Acyclic(mods) ==
    \A k \in Keys(mods) :
        k \notin ReachableFrom(mods, DependenciesOf(mods, k), Cardinality(Ids))

\* C25: no operation of the manager, for any module id and parent (a parent
\* equal to the module id included), makes a module reachable from itself
\* through dependency lists.
C25_DependenciesAcyclic ==
    [][(Acyclic(modules) /\ RegisteredUnderOwnModule(modules'))
        => Acyclic(modules')]_vars

Occurrences(seq, x) == Cardinality({i \in 1..Len(seq) : seq[i] = x})

\* parent links and dependency lists say the same: c is listed under p
\* exactly when c's parent is p, and then once
LinksAgree(mods) ==
    \A p \in Keys(mods), c \in Ids :
        LET n == Occurrences(get_module(mods, p).dependencies, c)
        IN  IF Has(mods, c) /\ get_module(mods, c).parent = p THEN n = 1 ELSE n = 0

\* C26: add_module, add_module_dependency, update_module and add_or_update
\* keep parent links and dependency lists in agreement, so each module is
\* listed under at most one parent and at most once.
C26_LinksAgree ==
    [][(/\ last'.op \in {"add_module", "add_module_dependency", "update_module",
                          "add_or_update"}
        /\ LinksAgree(modules)
        /\ RegisteredUnderOwnModule(modules')
        /\ Has(modules, last'.dependency) \/ last'.op # "add_module_dependency")
        => LinksAgree(modules')]_vars

\* C27: update_module, add_provider and add_module_dependency with a module
\* id that is not in the tree raise the unknown-module error and leave the
\* entries, the dependency lists and the root designation as they were.
C27_UnknownModuleRejected ==
    [][(/\ last'.op \in {"update_module", "add_provider", "add_module_dependency"}
        /\ ~Has(modules, last'.module))
        => /\ last'.outcome = "UnknownModuleError"
           /\ TreeUnchanged
           /\ provider_calls' = provider_calls]_vars

\* add_module_dependency was refused for a module that is not stored, on a
\* tree that holds two others
C27_Witness ==
    /\ last.op = "add_module_dependency"
    /\ last.outcome = "UnknownModuleError"
    /\ ~Has(modules, last.module)
    /\ Len(modules) = 2

\* C28: once a root module is designated, no call changes it, whether the
\* call succeeds or fails, and root_module returns it.
C28_RootNeverChanges ==
    [][root_module # None
        => /\ root_module' = root_module
           /\ last'.op = "root_module"
              => (last'.outcome = "ok" /\ last'.result = root_module)]_vars

\* A is the root and a second module was added without a parent afterwards
C28_Witness ==
    /\ core_module = None
    /\ root_module = "A"
    /\ last.op = "add_module"
    /\ last.module = "B"
    /\ last.parent = None
    /\ last.outcome = "ok"
    /\ Keys(modules) = {"A", "B"}

\* C30: credential extraction puts every Authorization header in exactly one
\* class.  A missing header, a missing scheme or credentials, or a scheme other
\* than basic gives the 403 "Not authenticated" error; credentials that are not
\* base64 of ASCII text, or whose text has no ":", give the 401 error with a
\* WWW-Authenticate header; a well-formed "Basic base64(user:pass)" header
\* returns the credentials user and pass.
HeaderScheme(h) == AuthorizationPartitioning(h)[1]
HeaderCredentials(h) == AuthorizationPartitioning(h)[3]
NotBasic(h) ==
    \/ h.none
    \/ HeaderScheme(h) = <<>>
    \/ HeaderCredentials(h) = <<>>
    \/ Lower(HeaderScheme(h)) # <<"basic">>
Undecodable(h) == B64Decode(HeaderCredentials(h)).error # None
UserPass(h) == Partition(B64Decode(HeaderCredentials(h)).text, ":")
C30_EveryHeaderClassified ==
    auth.op = "_get_credentials" =>
        LET h == auth.authorization
            r == auth.result
        IN  IF NotBasic(h)
            THEN /\ r.outcome = "raise"
                 /\ r.status_code = HTTP_403_FORBIDDEN
                 /\ r.detail = "Not authenticated"
            ELSE IF Undecodable(h) \/ UserPass(h)[2] = <<>>
            THEN /\ r.outcome = "raise"
                 /\ r.status_code = HTTP_401_UNAUTHORIZED
                 /\ Truthy(r.www_authenticate)
            ELSE /\ r.outcome = "return"
                 /\ r.username = Str(UserPass(h)[1])
                 /\ r.password = Str(UserPass(h)[3])

\* the messages the inner app hands to the send it was given, in order
ScriptMessages(script) ==
    LET sends == SelectSeq(script, LAMBDA step : step.do = "send")
    IN  [i \in 1..Len(sends) |-> sends[i].message]
\* the middleware has nothing to do for this call: null strategy, sessions
\* disabled, or a scope that is neither http nor websocket
SessionsOff ==
    \/ session.session_service = "SessionServiceNullStrategy"
    \/ "SESSION_DISABLED" \in DOMAIN session.config
        /\ session.config["SESSION_DISABLED"] = "True"
    \/ session.scope["type"] \notin {"http", "websocket"}
IsPrefix(s, t) == Len(s) <= Len(t) /\ s = SubSeq(t, 1, Len(s))

\* C23: with the null strategy, or SESSION_DISABLED true, or a scope that is
\* neither http nor websocket, the inner app is called with the original scope
\* and the original send: the scope gets no "session" key, so the app fails as
\* soon as it reads request.session, and every message reaches the outer send
\* as the app sent it, without a Set-Cookie header added.
C23_PassThrough ==
    (session.op = "__call__" /\ SessionsOff) =>
        /\ session.result.app_scope = session.scope
        /\ session.result.app_send = "send"
        /\ session.result.deserialized = "not called"
        /\ "session" \notin DOMAIN session.result.scope
        /\ IsPrefix(session.result.sent, ScriptMessages(session.script))
        /\ (\E i \in 1..Len(session.script) : session.script[i].do = "write_session")
               <=> session.result.outcome = "AssertionError"

\* sessions are disabled for a client strategy on an http scope, and the inner
\* app has sent a response start that reached the outer send
C23_Witness ==
    /\ session.op = "__call__"
    /\ session.session_service = "SessionClientStrategy"
    /\ "SESSION_DISABLED" \in DOMAIN session.config
    /\ session.config["SESSION_DISABLED"] = "True"
    /\ session.scope["type"] = "http"
    /\ session.cookie = "signed"
    /\ \E i \in 1..Len(session.result.sent) :
           session.result.sent[i].type = "http.response.start"

\* the session the scope holds when the inner app takes step p of its script
SessionAt(p) ==
    LET writes == {i \in 1..(p - 1) : session.script[i].do = "write_session"}
    IN  IF writes = {} THEN session.result.app_scope["session"]
        ELSE session.script[CHOOSE i \in writes : \A j \in writes : j <= i].session
\* how many messages the inner app has sent when it has taken step p
SentUpTo(p) == Cardinality({i \in 1..p : session.script[i].do = "send"})

\* C29: with an active strategy, sessions enabled and an http or websocket
\* scope, the scope holds a session when the inner app starts; every message of
\* the inner app reaches the outer send once, in the order sent; a message of
\* type "http.response.start" arrives with one Set-Cookie header appended, the
\* serialized session if the session is not empty and the serialization of
\* "null" if it is; any other message arrives as sent.
C29_SessionCookieOnResponseStart ==
    (session.op = "__call__" /\ ~SessionsOff) =>
        /\ "session" \in DOMAIN session.result.app_scope
        /\ session.result.app_send = "_send_wrapper"
        /\ session.result.outcome = "ok"
        /\ Len(session.result.sent) = Len(ScriptMessages(session.script))
        /\ \A p \in 1..Len(session.script) :
               session.script[p].do = "send" =>
                   LET m == session.script[p].message
                       out == session.result.sent[SentUpTo(p)]
                       cookie == IF SessionAt(p) # "{}"
                                 THEN serialize_session(SessionAt(p))
                                 ELSE serialize_session("null")
                   IN  IF m.type = "http.response.start"
                       THEN /\ out.type = m.type
                            /\ out.headers = Append(m.headers, <<"Set-Cookie", cookie>>)
                       ELSE out = m

\* an active middleware has forwarded two response starts, the first with the
\* cookie of a session that holds data and the second, after the inner app
\* cleared the session, with the cookie of "null"
C29_Witness ==
    /\ session.op = "__call__"
    /\ ~SessionsOff
    /\ Len(session.result.sent) = 2
    /\ session.script[2].do = "write_session"
    /\ session.result.sent[1].headers = <<<<"Set-Cookie", "session=user">>>>
    /\ session.result.sent[2].headers =
           <<<<"Set-Cookie", "theme=dark">>, <<"Set-Cookie", "session=null">>>>

\* the instances made in the boundary of connection c
MadeIn(c) == {m.instance : m \in {x \in constructed : x.boundary = c}}

\* C21: with the handlers of several connections interleaved at their await
\* points, and synchronous endpoints run on worker threads, every boundary that
\* code running for a connection reads from the slot is that connection's own,
\* and every request-scoped instance a handler is handed was made in its own
\* boundary, so no instance is handed to the handlers of two connections.
C21_HandlersIsolated ==
    /\ \A c \in Conns : handlers[c].read \subseteq {c}
    /\ \A c \in Conns : handlers[c].got \subseteq MadeIn(c)
    /\ \A c \in Conns, d \in Conns :
          c # d => handlers[c].got \cap handlers[d].got = {}

\* both connections are open at once, c1's synchronous endpoint is on a worker
\* thread and c2's coroutine endpoint is suspended, and each handler has been
\* handed a request-scoped instance of its own
C21_Witness ==
    /\ conns["c1"].state = "open"
    /\ conns["c2"].state = "open"
    /\ handlers["c1"].phase = "run_in_threadpool"
    /\ handlers["c2"].phase = "endpoint"
    /\ handlers["c1"].read = {"c1"}
    /\ handlers["c2"].read = {"c2"}
    /\ handlers["c1"].got # {}
    /\ handlers["c2"].got # {}
    /\ request.boundary = "c1"

\* a connection only moves from Unopened to Open and from Open to Closed
ConnectionForward ==
    \A c \in Conns :
        conns'[c].state # conns[c].state =>
            <<conns[c].state, conns'[c].state>>
                \in {<<"unopened", "open">>, <<"open", "closed">>}
\* nothing of a closed connection's boundary is left: no slot holds it, its
\* cache is empty, and what was made in it is in no other boundary's cache and
\* was handed to no other connection's handler
TornDown(c) ==
    conns[c].state = "closed" =>
        /\ \A u \in Units : slot[u] # c
        /\ boundary_cache[c] = EmptyCache
        /\ \A d \in Conns \ {c} :
              /\ handlers[d].got \cap MadeIn(c) = {}
              /\ \A t \in DOMAIN boundary_cache[d] :
                    boundary_cache[d][t] \notin MadeIn(c)

\* C22: a connection goes Unopened -> Open -> Closed and never back; once its
\* handler has finished, by success, handled exception, unhandled exception or
\* cancellation, its boundary is eventually torn down; from then on no slot
\* holds the boundary and its request-scoped instances are out of reach of
\* every other connection.
C22_TeardownOnEveryExit ==
    /\ [][ConnectionForward]_vars
    /\ [](\A c \in Conns : TornDown(c))
    /\ \A c \in Conns :
          (handlers[c].phase = "finished") ~> (conns[c].state = "closed")

\* c1 was cancelled after its handler had been handed an instance, and it is
\* closed; c2, whose endpoint raised, is closed as well
C22_Witness ==
    /\ conns["c1"].state = "closed"
    /\ handlers["c1"].exit = "cancelled"
    /\ handlers["c1"].got # {}
    /\ conns["c2"].state = "closed"
    /\ handlers["c2"].exit = "unhandled exception"

====
